---- MODULE Spec2Model ----
(***************************************************************************)
(* Verification model of densign01/coach-app: the natural-language to      *)
(* structured-data pipeline (meal parsing, nutrition enrichment, the       *)
(* orchestrator) and the in-memory session store with its draft hooks.     *)
(*                                                                         *)
(* Conventions                                                             *)
(*   - JavaScript null / undefined of a number is NULLN, of a string is    *)
(*     NULLS, of an object is NULL.                                        *)
(*   - Numbers are non-negative fixed-point values counted in thousandths  *)
(*     (300000 is 300, 4 is 0.004), so that toFixed(2) is a real rounding. *)
(***************************************************************************)
EXTENDS Integers, Sequences, FiniteSets, TLC

VARIABLES
  pc,      \* position of the call or request under way
  input,   \* its arguments
  output,  \* its result
  req,     \* locals of the orchestrator request under way
  uuid,    \* number of identifiers crypto.randomUUID has handed out
  coachState, \* the CoachState held by the CoachProvider reducer
  session, \* user id of the authentication session (null while signed out)
  refs,    \* the provider's refs: fetchedDates, fetchedProfile, loadedMessages
  tasks,   \* asynchronous continuations in flight (hooks and provider effects)
  last,    \* the handler step taken last and what it dispatched
  turn     \* number of messages the conversation has sent to the orchestrator

vars == <<pc, input, output, req, uuid, coachState, session, refs, tasks, last, turn>>

orchLocals == <<req, uuid, turn>>

storeVars == <<coachState, session, refs, tasks, last>>

NULL == <<>>
NULLN == -1
NULLS == "null"

\* the pure-function and single-request specifications run without a store
NoStore ==
  /\ coachState = NULL /\ session = NULLS /\ refs = NULL /\ tasks = {} /\ last = NULL

\* a ?? b on numbers and on strings
CoalesceN(a, b) == IF a = NULLN THEN b ELSE a
CoalesceS(a, b) == IF a = NULLS THEN b ELSE a

\* Number(x.toFixed(2)) on a value counted in thousandths
toFixed2(x) == ((x + 5) \div 10) * 10

NumericFields == {"caloriesKcal", "proteinG", "carbsG", "fatG", "fiberG"}

Estimate(cal, pro, carb, fat, fib, src, conf) ==
  [caloriesKcal |-> cal, proteinG |-> pro, carbsG |-> carb, fatG |-> fat,
   fiberG |-> fib, source |-> src, confidence |-> conf]

(***************************************************************************)
(* mergeNutritionEstimates: the two copies of the field-wise merge.        *)
(***************************************************************************)
mergeNutritionEstimates_dropsExisting(existing, incoming) ==
  incoming

mergeNutritionEstimates(existing, incoming) ==
  IF existing = NULL THEN incoming
  ELSE [caloriesKcal |-> CoalesceN(incoming.caloriesKcal, existing.caloriesKcal),
        proteinG     |-> CoalesceN(incoming.proteinG, existing.proteinG),
        carbsG       |-> CoalesceN(incoming.carbsG, existing.carbsG),
        fatG         |-> CoalesceN(incoming.fatG, existing.fatG),
        fiberG       |-> CoalesceN(CoalesceN(incoming.fiberG, existing.fiberG), NULLN),
        source       |-> CoalesceS(incoming.source, existing.source),
        confidence   |-> CoalesceN(CoalesceN(incoming.confidence, existing.confidence), NULLN)]

CalorieLookupAgent_mergeNutritionEstimates(existing, incoming) ==
  IF existing = NULL THEN incoming
  ELSE [caloriesKcal |-> CoalesceN(incoming.caloriesKcal, existing.caloriesKcal),
        proteinG     |-> CoalesceN(incoming.proteinG, existing.proteinG),
        carbsG       |-> CoalesceN(incoming.carbsG, existing.carbsG),
        fatG         |-> CoalesceN(incoming.fatG, existing.fatG),
        fiberG       |-> CoalesceN(CoalesceN(incoming.fiberG, existing.fiberG), NULLN),
        source       |-> CoalesceS(incoming.source, existing.source),
        confidence   |-> CoalesceN(CoalesceN(incoming.confidence, existing.confidence), NULLN)]

(***************************************************************************)
(* Inputs of the merge: every combination of known / unknown fields.       *)
(***************************************************************************)
MergeEstimates ==
  { Estimate(cal, pro, carb, fat, fib, src, conf) :
      cal \in {NULLN, 0, 300000}, pro \in {NULLN, 20000}, carb \in {NULLN, 26000},
      fat \in {NULLN, 0}, fib \in {NULLN, 2000},
      src \in {NULLS, "usda", "llm"}, conf \in {NULLN, 400} }

\* The two estimates the merge is used on by the enrichment: one that a parse
\* left partly known, one that the remote lookup returned partly known.
ExistingSamples ==
  { Estimate(NULLN, 20000, NULLN, 0, NULLN, "heuristic", 400),
    Estimate(300000, NULLN, 26000, NULLN, 2000, NULLS, NULLN),
    Estimate(NULLN, NULLN, NULLN, NULLN, NULLN, NULLS, NULLN) }

InitMerge ==
  /\ pc = "call"
  /\ input \in [existing : ExistingSamples \cup {NULL}, incoming : MergeEstimates]
  /\ output = NULL
  /\ req = NULL
  /\ uuid = 0
  /\ NoStore /\ turn = 0

ApplyMerge ==
  /\ pc = "call"
  /\ DOMAIN input = {"existing", "incoming"}
  /\ pc' = "return"
  /\ output' = [lib   |-> mergeNutritionEstimates(input.existing, input.incoming),
                agent |-> CalorieLookupAgent_mergeNutritionEstimates(input.existing, input.incoming)]
  /\ UNCHANGED <<input, orchLocals, storeVars>>

NextMerge == ApplyMerge

SpecMerge == InitMerge /\ [][NextMerge]_vars

\* The rule of the data model, stated per field: incoming if known, else
\* existing if known, else null.
IsNullField(f, v) == IF f = "source" THEN v = NULLS ELSE v = NULLN

MergedField(f, existing, incoming) ==
  IF ~IsNullField(f, incoming[f]) THEN incoming[f]
  ELSE IF existing # NULL /\ ~IsNullField(f, existing[f]) THEN existing[f]
  ELSE IF f = "source" THEN NULLS ELSE NULLN

MergeRuleHolds(existing, incoming, merged) ==
  /\ \A f \in DOMAIN incoming : merged[f] = MergedField(f, existing, incoming)
  /\ existing # NULL =>
       \A f \in DOMAIN existing : ~IsNullField(f, existing[f]) => ~IsNullField(f, merged[f])

\* C1: mergeNutritionEstimates(E, I) takes every field independently, the
\* incoming value if it is non-null, else the existing one, else null; no
\* field known in E is null in the result.
C1_MergeFieldwise ==
  pc = "return" /\ DOMAIN input = {"existing", "incoming"} =>
    /\ MergeRuleHolds(input.existing, input.incoming, output.lib)
    /\ MergeRuleHolds(input.existing, input.incoming, output.agent)

\* The example of the data model: {calories:300, protein:null} merged into
\* {calories:null, protein:20} keeps both.
C1_Witness ==
  /\ pc = "return"
  /\ DOMAIN input = {"existing", "incoming"}
  /\ input.existing # NULL
  /\ input.existing.caloriesKcal = NULLN /\ input.existing.proteinG = 20000
  /\ input.incoming.caloriesKcal = 300000 /\ input.incoming.proteinG = NULLN
  /\ output.lib.caloriesKcal = 300000 /\ output.lib.proteinG = 20000
  /\ output.agent.caloriesKcal = 300000 /\ output.agent.proteinG = 20000

(***************************************************************************)
(* Meal totals: the three implementations.                                 *)
(***************************************************************************)
MaxItems == 2

Quantity(value, unit) == [value |-> value, unit |-> unit]

\* StructuredMealItem, reduced to the fields the pipeline reads
StructuredItem(name, quantity, estimate, needsLookup, needsPortion) ==
  [name |-> name, quantity |-> quantity, nutritionEstimate |-> estimate,
   flags |-> [needsLookup |-> needsLookup, needsPortion |-> needsPortion]]

\* parsers.ts addNullableNumbers: a zero sum is reported as null
addNullableNumbers(a, b) ==
  LET total == CoalesceN(a, 0) + CoalesceN(b, 0)
  IN  IF total = 0 THEN NULLN ELSE toFixed2(total)

\* parsers.ts averageConfidence / orchestrator.ts averageNumeric
averageConfidence(a, b) ==
  IF a = NULLN /\ b = NULLN THEN NULLN
  ELSE IF a = NULLN THEN toFixed2(b)
  ELSE IF b = NULLN THEN toFixed2(a)
  ELSE toFixed2((a + b) \div 2)

TotalsSeed == Estimate(0, 0, 0, 0, 0, "heuristic", 500)

RECURSIVE computeTotalsFold(_, _)
computeTotalsFold(items, acc) ==
  IF items = <<>> THEN acc
  ELSE LET nutrition == Head(items).nutritionEstimate
           next == IF nutrition = NULL THEN acc
                   ELSE [caloriesKcal |-> addNullableNumbers(acc.caloriesKcal, nutrition.caloriesKcal),
                         proteinG     |-> addNullableNumbers(acc.proteinG, nutrition.proteinG),
                         carbsG       |-> addNullableNumbers(acc.carbsG, nutrition.carbsG),
                         fatG         |-> addNullableNumbers(acc.fatG, nutrition.fatG),
                         fiberG       |-> addNullableNumbers(acc.fiberG, nutrition.fiberG),
                         source       |-> CoalesceS(CoalesceS(acc.source, nutrition.source), "heuristic"),
                         confidence   |-> averageConfidence(acc.confidence, nutrition.confidence)]
       IN  computeTotalsFold(Tail(items), next)

computeTotals(items) ==
  LET totals == computeTotalsFold(items, TotalsSeed)
  IN  IF /\ totals.caloriesKcal = 0 /\ totals.proteinG = 0
         /\ totals.carbsG = 0 /\ totals.fatG = 0
      THEN NULL
      ELSE totals

\* orchestrator.ts sumNumbers: NaN cannot arise from finite numbers
sumNumbers(a, b) == toFixed2(CoalesceN(a, 0) + CoalesceN(b, 0))

RECURSIVE computeTotalsFromItemsFold(_, _)
computeTotalsFromItemsFold(items, acc) ==
  IF items = <<>> THEN acc
  ELSE LET nutrition == Head(items).nutritionEstimate
           next == IF nutrition = NULL THEN acc
                   ELSE [caloriesKcal |-> sumNumbers(acc.caloriesKcal, nutrition.caloriesKcal),
                         proteinG     |-> sumNumbers(acc.proteinG, nutrition.proteinG),
                         carbsG       |-> sumNumbers(acc.carbsG, nutrition.carbsG),
                         fatG         |-> sumNumbers(acc.fatG, nutrition.fatG),
                         fiberG       |-> sumNumbers(acc.fiberG, nutrition.fiberG),
                         source       |-> CoalesceS(nutrition.source, acc.source),
                         confidence   |-> averageConfidence(acc.confidence, nutrition.confidence)]
       IN  computeTotalsFromItemsFold(Tail(items), next)

computeTotalsFromItems(items) ==
  LET hasValues == \E i \in 1..Len(items) : items[i].nutritionEstimate # NULL
  IN  IF hasValues THEN computeTotalsFromItemsFold(items, TotalsSeed) ELSE NULL

\* MealParserAgent.computeTotals is a stub
MealParserAgent_computeTotals(items) == NULL

TotalsEstimates ==
  { Estimate(cal, pro, NULLN, fat, NULLN, "llm", NULLN) :
      cal \in {NULLN, 0, 300000}, pro \in {NULLN, 20000}, fat \in {NULLN, 9000} }

SeqsUpTo(S, n) == UNION { [1..k -> S] : k \in 0..n }

TotalsItems ==
  { StructuredItem("rice", Quantity(NULLN, NULLS), e, FALSE, TRUE) :
      e \in TotalsEstimates \cup {NULL} }

InitTotals ==
  /\ pc = "call"
  /\ input \in [items : SeqsUpTo(TotalsItems, MaxItems)]
  /\ output = NULL
  /\ req = NULL
  /\ uuid = 0
  /\ NoStore /\ turn = 0

ApplyTotals ==
  /\ pc = "call"
  /\ DOMAIN input = {"items"}
  /\ pc' = "return"
  /\ output' = [parser       |-> computeTotals(input.items),
                orchestrator |-> computeTotalsFromItems(input.items),
                agent        |-> MealParserAgent_computeTotals(input.items)]
  /\ UNCHANGED <<input, orchLocals, storeVars>>

NextTotals == ApplyTotals

SpecTotals == InitTotals /\ [][NextTotals]_vars

\* what the data model asks of the totals
RECURSIVE SumField(_, _)
SumField(items, f) ==
  IF items = <<>> THEN 0
  ELSE LET e == Head(items).nutritionEstimate
       IN  (IF e = NULL \/ e[f] = NULLN THEN 0 ELSE e[f]) + SumField(Tail(items), f)

Contributes(items) ==
  \E i \in 1..Len(items) :
    /\ items[i].nutritionEstimate # NULL
    /\ \E f \in NumericFields : items[i].nutritionEstimate[f] # NULLN

FieldPresent(items, f) ==
  \E i \in 1..Len(items) :
    items[i].nutritionEstimate # NULL /\ items[i].nutritionEstimate[f] # NULLN

TotalsRuleHolds(items, totals) ==
  IF ~Contributes(items) THEN totals = NULL
  ELSE /\ totals # NULL
       /\ \A f \in NumericFields :
            FieldPresent(items, f) => totals[f] = SumField(items, f)

\* C2: the totals are the per-field sum of the numeric fields present, and
\* are null (not an object of zeros or nulls) when no item contributes any
\* numeric value.
C2_TotalsNullWhenNothingKnown ==
  pc = "return" /\ DOMAIN input = {"items"} =>
    /\ TotalsRuleHolds(input.items, output.parser)
    /\ TotalsRuleHolds(input.items, output.orchestrator)
    /\ TotalsRuleHolds(input.items, output.agent)

(***************************************************************************)
(* Meal parsing: heuristic path, remote path, and the two entry points.    *)
(* A message text is carried as what segmentMealText and                   *)
(* extractQuantityInfo make of it: a sequence of parts, each a food name   *)
(* with the quantity found in it.                                          *)
(***************************************************************************)
THROWN == [thrown |-> TRUE]

Macros(cal, pro, carb, fat) == [calories |-> cal, protein |-> pro, carbs |-> carb, fat |-> fat]

DEFAULT_UNKNOWN_MACROS == Macros(200000, 7000, 26000, 8000)

\* FOOD_MACRO_DATABASE.find(...) for the food names of the model
FOOD_MACRO_DATABASE(name) ==
  CASE name = "banana" -> [unit |-> "piece", amount |-> 1, macros |-> Macros(105000, 1300, 27000, 400)]
    [] name = "beer"   -> [unit |-> "oz_fl", amount |-> 12, macros |-> Macros(150000, 2000, 13000, 0)]
    [] OTHER           -> NULL

unitsMatch(first, second) ==
  IF first = NULLS THEN FALSE
  ELSE IF first = "count" /\ second = "piece" THEN TRUE
  ELSE IF first = "packet" /\ second = "serving" THEN TRUE
  ELSE IF first = "oz" /\ (second = "oz" \/ second = "oz_fl") THEN TRUE
  ELSE IF first = "oz_fl" /\ second = "oz_fl" THEN TRUE
  ELSE first = second

\* the multiplier, in thousandths
computeMultiplier(quantity, estimate) ==
  LET baseAmount == IF estimate = NULL THEN 1 ELSE estimate.amount
  IN  IF quantity.value = NULLN \/ quantity.value = 0 THEN 1000
      ELSE IF estimate = NULL THEN quantity.value
      ELSE IF quantity.unit = NULLS THEN quantity.value \div baseAmount
      ELSE IF estimate.unit = "serving" THEN quantity.value \div baseAmount
      ELSE IF unitsMatch(quantity.unit, estimate.unit) THEN quantity.value \div baseAmount
      ELSE quantity.value

estimateItemMacros(part, quantity) ==
  LET estimate   == FOOD_MACRO_DATABASE(part)
      baseMacros == IF estimate = NULL THEN DEFAULT_UNKNOWN_MACROS ELSE estimate.macros
      multiplier == computeMultiplier(quantity, estimate)
  IN  Macros(toFixed2((baseMacros.calories * multiplier) \div 1000),
             toFixed2((baseMacros.protein * multiplier) \div 1000),
             toFixed2((baseMacros.carbs * multiplier) \div 1000),
             toFixed2((baseMacros.fat * multiplier) \div 1000))

estimateNutritionFromHeuristics(part, quantity) ==
  LET macros == estimateItemMacros(part, quantity)
  IN  Estimate(macros.calories, macros.protein, macros.carbs, macros.fat, NULLN, "heuristic", 400)

deriveFlags(quantity, nutrition) ==
  [needsLookup |-> (nutrition = NULL), needsPortion |-> (quantity.value = NULLN)]

MealParseResult(mealType, items, totals, confidence, source) ==
  [mealType |-> mealType, items |-> items, totals |-> totals,
   confidence |-> confidence, audit |-> [source |-> source]]

heuristicMealParser(text) ==
  LET items == [i \in 1..Len(text.parts) |->
                  LET part      == text.parts[i]
                      nutrition == estimateNutritionFromHeuristics(part.name, part.quantity)
                  IN  [name |-> part.name, quantity |-> part.quantity,
                       nutritionEstimate |-> nutrition,
                       flags |-> deriveFlags(part.quantity, nutrition)]]
  IN  MealParseResult(text.mealType, items, computeTotals(items), "medium", "heuristic")

\* normalizeNutrition: null in, null out; the numbers pass through Number()
normalizeNutrition(nutrition) ==
  IF nutrition = NULL THEN NULL ELSE nutrition

normalizeLLMItem(item) ==
  [name |-> item.name,
   quantity |-> IF item.quantity = NULL THEN Quantity(NULLN, NULLS) ELSE item.quantity,
   nutritionEstimate |-> normalizeNutrition(item.nutrition_estimate),
   flags |-> IF item.flags = NULL THEN [needsLookup |-> FALSE, needsPortion |-> FALSE]
             ELSE item.flags]

inferConfidenceFromItems(items) ==
  IF \E i \in 1..Len(items) : items[i].flags.needsLookup THEN "medium" ELSE "high"

ParseFailures ==
  {"transportError", "non2xx", "emptyContent", "malformedJSON", "schemaViolation"}

\* callOpenAIParser: throws on every failure of the remote extraction
callOpenAIParser(text, remote) ==
  IF remote.kind \in ParseFailures THEN THROWN
  ELSE LET items  == [i \in 1..Len(remote.items) |-> normalizeLLMItem(remote.items[i])]
           totals == normalizeNutrition(remote.totals)
       IN  MealParseResult(remote.mealType, items,
                           IF totals = NULL THEN computeTotals(items) ELSE totals,
                           CoalesceS(remote.confidence, inferConfidenceFromItems(items)),
                           NULLS)

parseMealFromText_tagsLlm(text, remote) ==
  [heuristicMealParser(text) EXCEPT !.audit.source = "llm"]

parseMealFromText(text, remote) ==
  LET parsed == IF remote.kind = "noKey" THEN THROWN ELSE callOpenAIParser(text, remote)
  IN  IF parsed # THROWN
      THEN [parsed EXCEPT !.audit.source = "llm"]
      ELSE heuristicMealParser(text)

\* MealParserAgent.heuristicParse: no estimate, needsLookup set
MealParserAgent_heuristicParse(text) ==
  LET items == [i \in 1..Len(text.parts) |->
                  [name |-> text.parts[i].name, quantity |-> text.parts[i].quantity,
                   nutritionEstimate |-> NULL,
                   flags |-> [needsLookup |-> TRUE,
                              needsPortion |-> (text.parts[i].quantity.value = NULLN)]]]
  IN  MealParseResult(text.mealType, items, NULL, "medium", "heuristic")

\* MealParserAgent.callLLMParser: parsed.items.map(this.normalizeLLMItem)
\* calls the method without its receiver, so normalizeLLMItem throws a
\* TypeError on the first item (the schema guarantees there is one).
MealParserAgent_callLLMParser(text, remote) ==
  IF remote.kind \in ParseFailures THEN THROWN
  ELSE IF Len(remote.items) > 0 THEN THROWN
  ELSE MealParseResult(remote.mealType, <<>>,
                       IF normalizeNutrition(remote.totals) = NULL
                       THEN MealParserAgent_computeTotals(<<>>)
                       ELSE normalizeNutrition(remote.totals),
                       CoalesceS(remote.confidence, "high"), NULLS)

MealParserAgent_parsemeal(text, remote) ==
  IF remote.kind = "noKey"
  THEN [result |-> MealParserAgent_heuristicParse(text), source |-> "heuristic"]
  ELSE LET llmResult == MealParserAgent_callLLMParser(text, remote)
       IN  IF llmResult # THROWN
           THEN [result |-> [llmResult EXCEPT !.audit.source = "llm"], source |-> "llm"]
           ELSE [result |-> MealParserAgent_heuristicParse(text), source |-> "heuristic"]

\* requestMealDraftFromText: the draft of the /api/parseMeal route, or null
requestMealDraftFromText(text, remote) ==
  IF remote.kind = "routeFailure" THEN NULL
  ELSE MealParserAgent_parsemeal(text, remote).result

(***************************************************************************)
(* Nutrition enrichment: the library function and the agent.               *)
(* A remote answer is [kind, entries]; entries are the {index,             *)
(* nutrition_estimate} pairs of the response body (0-based index).  A      *)
(* failed answer may carry entries too; the code must not use them.        *)
(***************************************************************************)
EnrichFailures ==
  {"transportError", "non2xx", "emptyContent", "malformedJSON", "schemaViolation"}

coerce(value) == IF value = NULLN THEN NULLN ELSE toFixed2(value)

IncomingEstimate(e) ==
  Estimate(coerce(e.caloriesKcal), coerce(e.proteinG), coerce(e.carbsG), coerce(e.fatG),
           coerce(e.fiberG), CoalesceS(e.source, "llm"), coerce(e.confidence))

needsEnrichment(items) == \E i \in 1..Len(items) : items[i].nutritionEstimate = NULL

RECURSIVE mergeEntries(_, _)
mergeEntries(enriched, entries) ==
  IF entries = <<>> THEN enriched
  ELSE LET item == Head(entries)
           k    == item.index + 1
       IN  IF k \notin 1..Len(enriched) THEN mergeEntries(enriched, Tail(entries))
           ELSE mergeEntries(
                  [enriched EXCEPT ![k].nutritionEstimate =
                     mergeNutritionEstimates(enriched[k].nutritionEstimate,
                                             IncomingEstimate(item.nutrition_estimate))],
                  Tail(entries))

enrichNutritionEstimates(items, remote) ==
  IF remote.kind = "noKey" THEN items
  ELSE IF ~needsEnrichment(items) THEN items
  ELSE IF remote.kind \in EnrichFailures THEN items
  ELSE mergeEntries(items, remote.entries)

\* Math.round on thousandths, and rounding to the nearest 5
MathRound(x) == ((x + 500) \div 1000) * 1000
RoundToFive(x) == ((x + 2500) \div 5000) * 5000

CalorieLookupAgent_estimateItemMacros(name, quantity) ==
  LET base == IF name = "banana" THEN Macros(105000, 1000, 27000, 400)
              ELSE Macros(200000, 7000, 26000, 8000)
      multiplier == IF quantity.value = NULLN \/ quantity.value = 0 THEN 1000 ELSE quantity.value
  IN  Macros(RoundToFive((base.calories * multiplier) \div 1000),
             MathRound((base.protein * multiplier) \div 1000),
             MathRound((base.carbs * multiplier) \div 1000),
             MathRound((base.fat * multiplier) \div 1000))

\* addHeuristicNutrition with its receiver made explicit: it reads
\* this.estimateItemMacros, so without a receiver it throws a TypeError
\* for every item that has no estimate yet.
CalorieLookupAgent_addHeuristicNutrition(this, item) ==
  IF item.nutritionEstimate # NULL THEN item
  ELSE IF this = NULLS THEN THROWN
  ELSE LET macros == CalorieLookupAgent_estimateItemMacros(item.name, item.quantity)
       IN  [item EXCEPT !.nutritionEstimate =
              Estimate(macros.calories, macros.protein, macros.carbs, macros.fat,
                       NULLN, "heuristic", 400)]

\* input.items.map(this.addHeuristicNutrition): the callback is detached,
\* Array.prototype.map calls it with this = undefined
mapAddHeuristicNutrition(items) ==
  [i \in 1..Len(items) |-> CalorieLookupAgent_addHeuristicNutrition(NULLS, items[i])]

mapThrows(mapped) == \E i \in 1..Len(mapped) : mapped[i] = THROWN

RECURSIVE CalorieLookupAgent_mergeEntries(_, _)
CalorieLookupAgent_mergeEntries(enriched, entries) ==
  IF entries = <<>> THEN enriched
  ELSE LET item == Head(entries)
           k    == item.index + 1
       IN  IF k \notin 1..Len(enriched) THEN CalorieLookupAgent_mergeEntries(enriched, Tail(entries))
           ELSE CalorieLookupAgent_mergeEntries(
                  [enriched EXCEPT ![k].nutritionEstimate =
                     CalorieLookupAgent_mergeNutritionEstimates(
                       enriched[k].nutritionEstimate, IncomingEstimate(item.nutrition_estimate))],
                  Tail(entries))

EnrichOutput(items, confidence, source) ==
  [enrichedItems |-> items, confidence |-> confidence, source |-> source]

CalorieLookupAgent_enrichNutrition(items, remote) ==
  IF remote.kind = "noKey"
  THEN IF mapThrows(mapAddHeuristicNutrition(items)) THEN THROWN
       ELSE EnrichOutput(mapAddHeuristicNutrition(items), "low", "heuristic")
  ELSE IF ~needsEnrichment(items) THEN EnrichOutput(items, "high", "usda")
  ELSE IF remote.kind \in EnrichFailures
  THEN IF mapThrows(mapAddHeuristicNutrition(items)) THEN THROWN
       ELSE EnrichOutput(mapAddHeuristicNutrition(items), "low", "heuristic")
  ELSE EnrichOutput(CalorieLookupAgent_mergeEntries(items, remote.entries), "high", "usda")

(***************************************************************************)
(* Strings as the code handles them: one character is a string of length   *)
(* one.                                                                    *)
(***************************************************************************)
Char(s, i) == SubSeq(s, i, i)

From(s, i) == SubSeq(s, i, Len(s))

Whitespace == {" ", "\t", "\n"}

RECURSIVE trimStart(_)
trimStart(s) == IF Len(s) > 0 /\ Char(s, 1) \in Whitespace THEN trimStart(From(s, 2)) ELSE s

RECURSIVE trimEnd(_)
trimEnd(s) ==
  IF Len(s) > 0 /\ Char(s, Len(s)) \in Whitespace THEN trimEnd(SubSeq(s, 1, Len(s) - 1)) ELSE s

\* String.prototype.trim
trim(s) == trimEnd(trimStart(s))

UpperCase == "ABCDEFGHIJKLMNOPQRSTUVWXYZ"
LowerCase == "abcdefghijklmnopqrstuvwxyz"

lowerChar(c) ==
  IF \E i \in 1..Len(UpperCase) : Char(UpperCase, i) = c
  THEN Char(LowerCase, CHOOSE i \in 1..Len(UpperCase) : Char(UpperCase, i) = c)
  ELSE c

\* String.prototype.toLowerCase
RECURSIVE toLowerCase(_)
toLowerCase(s) == IF s = "" THEN "" ELSE lowerChar(Char(s, 1)) \o toLowerCase(From(s, 2))

(***************************************************************************)
(* The coaching reply collaborator, seen from the two orchestrators.       *)
(* A remote answer is [kind, message, insight].                            *)
(***************************************************************************)
\* the insight of an answer: trimmed, and null when it is absent, empty or
\* "none" in any letter case
parseInsight(raw) ==
  LET insightRaw == IF raw = NULLS THEN "" ELSE trim(raw)
  IN  IF insightRaw # "" /\ toLowerCase(insightRaw) # "none" THEN insightRaw ELSE NULLS

\* generateCoachResponse of the API client: null on any failure, and the
\* message of a 200 answer as it is, the empty string included
generateCoachResponse(remote) ==
  IF remote.kind # "ok" THEN [message |-> NULLS, insight |-> NULLS]
  ELSE [message |-> remote.message,
        insight |-> parseInsight(remote.insight)]

\* CoachAgent.generateResponse: a canned message on every failure
CoachAgent_generateResponse(remote) ==
  IF remote.kind = "noKey"
  THEN [message |-> "I'm here to help! Tell me about your nutrition.", insight |-> NULLS]
  ELSE IF remote.kind = "non2xx"
  THEN [message |-> "I'm here to support you.", insight |-> NULLS]
  ELSE IF remote.kind = "transportError"
  THEN [message |-> "I'm here to help you stay on track.", insight |-> NULLS]
  ELSE IF remote.message \in {NULLS, ""}
  THEN [message |-> "I hear you.", insight |-> NULLS]
  ELSE [message |-> remote.message,
        insight |-> parseInsight(remote.insight)]

CoachFailed(remote) == remote.kind # "ok" \/ remote.message \in {NULLS, ""}

(***************************************************************************)
(* Onboarding steps and the profile-insight update.                        *)
(***************************************************************************)
NumOnboardingSteps == 15
MaxInsights == 20

Profile(userId, completed, step, insights, depth, summary) ==
  [userId |-> userId, onboardingCompleted |-> completed, onboardingStep |-> step,
   insights |-> insights, onboardingDepth |-> depth, profileSummary |-> summary]

Question(id) == "question " \o ToString(id)

skipCondition_never(id, depth) == FALSE

\* ONBOARDING_STEPS[i].skipCondition
skipCondition(id, depth) == id \in 10..14 /\ depth = "learn"

getOnboardingStep(stepId) == IF stepId \in 1..NumOnboardingSteps THEN stepId ELSE NULLN

getNextOnboardingStep_repeats(currentStep, depth) ==
  IF currentStep + 1 \notin 1..NumOnboardingSteps THEN NULLN ELSE currentStep

RECURSIVE getNextOnboardingStep(_, _)
getNextOnboardingStep(currentStep, depth) ==
  IF currentStep + 1 \notin 1..NumOnboardingSteps THEN NULLN
  ELSE IF skipCondition(currentStep + 1, depth) THEN getNextOnboardingStep(currentStep + 1, depth)
  ELSE currentStep + 1

\* parseOnboardingResponse, for the one answer that steers the flow
parseOnboardingResponse(step, text, depth) ==
  IF step = 9 THEN (IF text.learn THEN "learn" ELSE "more") ELSE depth

\* generateOnboardingResponse / generateProfileSummary: the remote text if
\* there is one, else the local template
generateOnboardingResponse(nextStep, remote) ==
  IF remote.kind = "ok" /\ remote.message \notin {NULLS, ""} THEN remote.message
  ELSE "Thanks for sharing! " \o Question(nextStep)

generateProfileSummary(remote) ==
  IF remote.kind = "ok" /\ remote.message \notin {NULLS, ""} THEN remote.message
  ELSE "Welcome to your personalized coaching journey!"

Remove(seq, x) == SelectSeq(seq, LAMBDA y : y # x)

Take(seq, n) == SubSeq(seq, 1, IF Len(seq) < n THEN Len(seq) ELSE n)

\* appendInsightToProfile up to its upsert: what it returns without saving,
\* or the profile it is about to save
appendInsightPlan_uncapped(profile, insight) ==
  IF profile = NULL THEN [save |-> FALSE, profile |-> NULL]
  ELSE IF profile.userId = NULLS THEN [save |-> FALSE, profile |-> NULL]
  ELSE IF insight = NULLS THEN [save |-> FALSE, profile |-> NULL]
  ELSE IF trim(insight) = "" THEN [save |-> FALSE, profile |-> NULL]
  ELSE IF profile.insights # <<>> /\ Head(profile.insights) = trim(insight)
       THEN [save |-> FALSE, profile |-> profile]
  ELSE [save |-> TRUE,
        profile |-> [profile EXCEPT !.insights =
                       <<trim(insight)>> \o Remove(profile.insights, trim(insight))]]

appendInsightPlan(profile, insight) ==
  IF profile = NULL THEN [save |-> FALSE, profile |-> NULL]
  ELSE IF profile.userId = NULLS THEN [save |-> FALSE, profile |-> NULL]
  ELSE IF insight = NULLS THEN [save |-> FALSE, profile |-> NULL]
  ELSE IF trim(insight) = "" THEN [save |-> FALSE, profile |-> NULL]
  ELSE IF profile.insights # <<>> /\ Head(profile.insights) = trim(insight)
       THEN [save |-> FALSE, profile |-> profile]
  ELSE [save |-> TRUE,
        profile |-> [profile EXCEPT !.insights =
                       Take(<<trim(insight)>> \o Remove(profile.insights, trim(insight)),
                            MaxInsights)]]

(***************************************************************************)
(* Inputs of one orchestrator request.                                     *)
(***************************************************************************)
Intents ==
  {"logMeal", "logWorkout", "askPlan", "askNutritionSummary", "askProgress",
   "statusUpdate", "smallTalk", "unknown"}

Text(intent, parts, learn) ==
  [intent |-> intent, parts |-> parts, mealType |-> "lunch", learn |-> learn]

Part(name, quantity) == [name |-> name, quantity |-> quantity]

MealParts ==
  { <<>>,
    <<Part("banana", Quantity(2000, "count"))>>,
    <<Part("rice", Quantity(NULLN, NULLS)), Part("beer", Quantity(12000, "oz"))>> }

OrchTexts ==
  { Text(i, <<>>, FALSE) : i \in Intents \ {"logMeal"} }
    \cup { Text("unknown", <<>>, TRUE) }
    \cup { Text("logMeal", p, FALSE) : p \in MealParts }

Snapshot(userId, profileLoaded, profile) ==
  [userId |-> userId, profileLoaded |-> profileLoaded, profile |-> profile]

OnboardingStepSamples == {NULLN, -2, 0, 1, 9, 14, 15, 16}

OrchStates ==
  { Snapshot(NULLS, FALSE, NULL), Snapshot("u1", FALSE, NULL), Snapshot("u1", TRUE, NULL) }
    \cup { Snapshot("u1", TRUE, Profile("u1", TRUE, 16, i, "more", "summary")) :
             i \in {<<>>, <<"likes oats">>} }
    \cup { Snapshot("u1", TRUE, Profile("u1", FALSE, st, <<>>, d, NULLS)) :
             st \in OnboardingStepSamples, d \in {NULLS, "learn"} }

RawItem(name, quantity, nutrition, flags) ==
  [name |-> name, quantity |-> quantity, nutrition_estimate |-> nutrition, flags |-> flags]

ValidParses ==
  { [kind |-> "valid", mealType |-> "lunch", totals |-> NULL, confidence |-> NULLS,
     items |-> <<RawItem("banana", Quantity(2000, "count"),
                         Estimate(210000, 2600, 54000, 800, NULLN, "llm", 800), NULL)>>],
    [kind |-> "valid", mealType |-> "lunch", totals |-> NULL, confidence |-> "low",
     items |-> <<RawItem("rice", NULL, NULL, [needsLookup |-> TRUE, needsPortion |-> TRUE]),
                 RawItem("beer", Quantity(12000, "oz_fl"),
                         Estimate(NULLN, NULLN, NULLN, NULLN, NULLN, NULLS, NULLN), NULL)>>] }

ParseOutcomes == { [kind |-> k] : k \in {"noKey"} \cup ParseFailures } \cup ValidParses

DraftOutcomes == { [kind |-> "routeFailure"] } \cup ParseOutcomes

Entry(index, estimate) == [index |-> index, nutrition_estimate |-> estimate]

EntrySamples ==
  { <<Entry(0, Estimate(123456, 1004, NULLN, 0, NULLN, NULLS, 900))>>,
    <<Entry(1, Estimate(150000, NULLN, 13000, NULLN, NULLN, "usda", NULLN)),
      Entry(5, Estimate(999000, 99000, 99000, 99000, NULLN, "usda", 900))>> }

EnrichOutcomes ==
  { [kind |-> k, entries |-> <<>>] : k \in {"noKey"} \cup (EnrichFailures \ {"schemaViolation"}) }
    \cup { [kind |-> k, entries |-> e] : k \in {"schemaViolation", "valid"}, e \in EntrySamples }

CoachOutcomes ==
  { [kind |-> k, message |-> NULLS, insight |-> NULLS] :
      k \in {"noKey", "transportError", "non2xx", "ok"} }
    \cup { [kind |-> "ok", message |-> "", insight |-> i] : i \in {NULLS, "prefers tea"} }
    \cup { [kind |-> "ok", message |-> "Nice work.", insight |-> i] :
             i \in {NULLS, "none", "likes oats", "prefers tea"} }

SaveOutcomes == {"saved", "failed"}

TextOutcomes ==
  { [kind |-> "noKey", message |-> NULLS], [kind |-> "non2xx", message |-> NULLS],
    [kind |-> "ok", message |-> ""], [kind |-> "ok", message |-> "Great, thanks."] }

Impls == {"ai", "agents"}

UuidStarts == {0, 7}

(***************************************************************************)
(* One orchestrateCoachReply request, one action per awaited call: the     *)
(* action is the completion of the call named by pc together with the      *)
(* synchronous code that follows it up to the next await.                  *)
(***************************************************************************)
SignInMessage == "Please sign in so I can log your activity."
TechnicalIssueMessage == "I can help you log that meal, but I ran into a technical issue."
OnboardingStubMessage == "Onboarding flow handled by existing system for now."
StartOverMessage == "Let me start over with a fresh approach to getting to know you."
MealFallbackMessage(confidence) ==
  IF confidence = "low" THEN "I can take a guess at those foods, but double-check the details."
  ELSE "Nice. That adds about the estimated protein and calories. Look good?"
defaultWorkoutMessage == "Logged the workout. Every bit of movement adds up."
fallbackGeneral == "Thanks for sharing. Want me to log anything else?"
ReadOnlyMessage(intent) ==
  CASE intent = "askPlan" -> "Let's keep today flexible."
    [] intent = "askNutritionSummary" -> "No meals logged yet today."
    [] OTHER -> "No recorded movement this week yet."

Reply(coachMessage, drafts, hasDrafts, workoutLog, profileUpdate) ==
  [coachMessage |-> coachMessage, foodItemDrafts |-> drafts, hasFoodItemDrafts |-> hasDrafts,
   workoutLog |-> workoutLog, profileUpdate |-> profileUpdate]

FoodItemDraft(id, groupId, mealType, item, source, confidence) ==
  [id |-> id, groupId |-> groupId, mealType |-> mealType,
   payload |-> [item |-> item, source |-> source, confidence |-> confidence]]

NewRequest(u) ==
  [branch |-> "none", draftKind |-> "none", parseKind |-> "none", enrichKind |-> "none",
   coachKind |-> "none", textKind |-> "none", saveKind |-> "none", nutritionistKind |-> "none",
   coachFailed |-> TRUE, parsed |-> NULL, groupId |-> 0, enriched |-> <<>>, drafts |-> <<>>,
   hasDrafts |-> FALSE, coachMessage |-> NULLS, workoutLog |-> NULL, profileUpdate |-> NULL,
   pendingProfile |-> NULL, enrichResult |-> NULL, uuid0 |-> u]

isInOnboarding_needsProfile(state) ==
  /\ state.profileLoaded
  /\ state.profile # NULL
  /\ ~state.profile.onboardingCompleted
  /\ CoalesceN(state.profile.onboardingStep, 0) >= 0

isInOnboarding(state) ==
  /\ state.profileLoaded
  /\ ~(state.profile # NULL /\ state.profile.onboardingCompleted)
  /\ CoalesceN(IF state.profile = NULL THEN NULLN ELSE state.profile.onboardingStep, 0) >= 0

InitOrch ==
  /\ pc = "route"
  /\ input \in [impl : Impls, state : OrchStates, text : OrchTexts]
  /\ output = NULL
  /\ uuid \in UuidStarts
  /\ req = NewRequest(uuid)
  /\ NoStore /\ turn = 0

InOrch == DOMAIN input = {"impl", "state", "text"}

Return(r) ==
  /\ pc' = "done"
  /\ output' = Reply(r.coachMessage, r.drafts, r.hasDrafts, r.workoutLog, r.profileUpdate)
  /\ req' = r
  /\ UNCHANGED <<input, storeVars, turn>>

Await(call, r) ==
  /\ pc' = call
  /\ req' = r
  /\ UNCHANGED <<input, output, storeVars, turn>>

\* handleOnboardingFlow up to its first await
RouteOnboarding ==
  /\ pc = "route" /\ InOrch
  /\ isInOnboarding(input.state)
  /\ UNCHANGED uuid
  /\ IF input.impl = "agents"
     THEN Return([req EXCEPT !.branch = "onboarding", !.coachMessage = OnboardingStubMessage])
     ELSE LET profile == input.state.profile
              base == IF profile = NULL
                      THEN Profile(input.state.userId, FALSE, NULLN, <<>>, NULLS, NULLS)
                      ELSE [profile EXCEPT !.userId = input.state.userId]
              currentStep == CoalesceN(base.onboardingStep, 0)
              updatedDepth == IF currentStep > 1
                              THEN parseOnboardingResponse(currentStep, input.text, base.onboardingDepth)
                              ELSE base.onboardingDepth
              nextStep == getNextOnboardingStep(currentStep, updatedDepth)
          IN  IF currentStep = 0
              THEN Await("saveProfile",
                         [req EXCEPT !.branch = "onboardingFirst",
                                     !.coachMessage = Question(1),
                                     !.pendingProfile = [base EXCEPT !.onboardingStep = 1,
                                                                     !.onboardingCompleted = FALSE]])
              ELSE IF getOnboardingStep(currentStep) = NULLN
              THEN Return([req EXCEPT !.branch = "onboarding", !.coachMessage = StartOverMessage])
              ELSE IF nextStep = NULLN
              THEN Await("profileSummary",
                         [req EXCEPT !.branch = "onboardingComplete",
                                     !.pendingProfile = [base EXCEPT !.onboardingCompleted = TRUE,
                                                                     !.onboardingStep = currentStep + 1,
                                                                     !.onboardingDepth = updatedDepth]])
              ELSE Await("saveProfile",
                         [req EXCEPT !.branch = "onboardingContinue",
                                     !.pendingProfile = [base EXCEPT !.onboardingStep = nextStep,
                                                                     !.onboardingDepth = updatedDepth]])

RouteLogMeal_enrichesAtOnce ==
  /\ pc = "route" /\ InOrch
  /\ ~isInOnboarding(input.state)
  /\ input.text.intent = "logMeal"
  /\ UNCHANGED uuid
  /\ Await("enrich",
           [req EXCEPT !.branch = "logMeal",
                       !.parsed = parseMealFromText(input.text, [kind |-> "noKey"])])

RouteLogMeal ==
  /\ pc = "route" /\ InOrch
  /\ ~isInOnboarding(input.state)
  /\ input.text.intent = "logMeal"
  /\ UNCHANGED uuid
  /\ Await(IF input.impl = "ai" THEN "requestMealDraft" ELSE "parseMeal",
           [req EXCEPT !.branch = "logMeal"])

\* handleWorkoutLogging up to the coaching call
RouteLogWorkout ==
  /\ pc = "route" /\ InOrch
  /\ ~isInOnboarding(input.state)
  /\ input.text.intent = "logWorkout"
  /\ IF input.state.userId = NULLS
     THEN /\ Return([req EXCEPT !.branch = "logWorkout", !.coachMessage = SignInMessage])
          /\ UNCHANGED uuid
     ELSE /\ uuid' = uuid + 1
          /\ Await("coach",
                   [req EXCEPT !.branch = "logWorkout",
                               !.workoutLog = [id |-> uuid + 1, status |-> "completed",
                                               minutes |-> 20]])

RouteReadOnly ==
  /\ pc = "route" /\ InOrch
  /\ ~isInOnboarding(input.state)
  /\ input.text.intent \in {"askPlan", "askNutritionSummary", "askProgress"}
  /\ UNCHANGED uuid
  /\ IF input.impl = "ai" \/ input.text.intent = "askPlan"
     THEN Return([req EXCEPT !.branch = input.text.intent,
                             !.coachMessage = ReadOnlyMessage(input.text.intent)])
     ELSE Await("nutritionist", [req EXCEPT !.branch = input.text.intent])

RouteGenerative ==
  /\ pc = "route" /\ InOrch
  /\ ~isInOnboarding(input.state)
  /\ input.text.intent \in {"statusUpdate", "smallTalk", "unknown"}
  /\ UNCHANGED uuid
  /\ Await("coach", [req EXCEPT !.branch = "general"])

\* draftFromApi = await requestMealDraftFromText(text)
RequestMealDraftDone ==
  /\ pc = "requestMealDraft" /\ InOrch
  /\ \E remote \in DraftOutcomes :
       LET draftFromApi == requestMealDraftFromText(input.text, remote)
       IN  IF draftFromApi = NULL
           THEN /\ Await("parseMeal", [req EXCEPT !.draftKind = remote.kind])
                /\ UNCHANGED uuid
           ELSE /\ Await("enrich", [req EXCEPT !.draftKind = remote.kind,
                                               !.parsed = draftFromApi,
                                               !.groupId = uuid + 1])
                /\ uuid' = uuid + 1

\* parsed = await parseMealFromText(text) / mealParserAgent.parsemeal({text})
ParseMealDone ==
  /\ pc = "parseMeal" /\ InOrch
  /\ \E remote \in ParseOutcomes :
       IF input.impl = "ai"
       THEN /\ Await("enrich", [req EXCEPT !.parseKind = remote.kind,
                                           !.parsed = parseMealFromText(input.text, remote),
                                           !.groupId = uuid + 1])
            /\ uuid' = uuid + 1
       ELSE /\ Await("enrich", [req EXCEPT !.parseKind = remote.kind,
                                           !.parsed = MealParserAgent_parsemeal(input.text, remote).result])
            /\ UNCHANGED uuid

convertToFoodItemDrafts_sharedId(items, mealType, u) ==
  [i \in 1..Len(items) |-> FoodItemDraft(u + 2, u + 1, mealType, items[i], "llm", "high")]

\* AgentOrchestrator.convertToFoodItemDrafts
convertToFoodItemDrafts(items, mealType, u) ==
  [i \in 1..Len(items) |-> FoodItemDraft(u + 1 + i, u + 1, mealType, items[i], "llm", "high")]

\* the enrichment returns; the drafts are built from what it returned
EnrichDone ==
  /\ pc = "enrich" /\ InOrch
  /\ \E remote \in EnrichOutcomes :
       IF input.impl = "ai"
       THEN LET enrichedItems == enrichNutritionEstimates(req.parsed.items, remote)
                foodItemDrafts ==
                  [i \in 1..Len(enrichedItems) |->
                     FoodItemDraft(uuid + i, req.groupId, req.parsed.mealType, enrichedItems[i],
                                   IF req.parsed.audit.source = "heuristic" THEN "heuristic" ELSE "llm",
                                   req.parsed.confidence)]
            IN  /\ Await("coach", [req EXCEPT !.enrichKind = remote.kind,
                                              !.enrichResult = EnrichOutput(enrichedItems, NULLS, NULLS),
                                              !.enriched = enrichedItems,
                                              !.drafts = foodItemDrafts,
                                              !.hasDrafts = TRUE])
                /\ uuid' = uuid + Len(enrichedItems)
       ELSE LET nutritionResult == CalorieLookupAgent_enrichNutrition(req.parsed.items, remote)
            IN  IF nutritionResult = THROWN
                THEN /\ Return([req EXCEPT !.enrichKind = remote.kind,
                                           !.enrichResult = THROWN,
                                           !.coachMessage = TechnicalIssueMessage])
                     /\ UNCHANGED uuid
                ELSE /\ Await("nutritionist",
                              [req EXCEPT !.enrichKind = remote.kind,
                                          !.enrichResult = nutritionResult,
                                          !.enriched = nutritionResult.enrichedItems,
                                          !.groupId = uuid + 1,
                                          !.drafts = convertToFoodItemDrafts(
                                                       nutritionResult.enrichedItems,
                                                       req.parsed.mealType, uuid),
                                          !.hasDrafts = TRUE])
                     /\ uuid' = uuid + 1 + Len(nutritionResult.enrichedItems)

\* nutritionistAgent.analyzeNutrition: falls back locally, never throws
NutritionistDone ==
  /\ pc = "nutritionist" /\ InOrch
  /\ \E kind \in {"ok", "failed"} : Await("coach", [req EXCEPT !.nutritionistKind = kind])
  /\ UNCHANGED uuid

\* the coachMessage each handler makes of the collaborator's answer
coachMessageOf(impl, branch, response, confidence) ==
  IF impl = "agents"
  THEN CoalesceS(response.message,
                 IF branch = "logMeal" THEN MealFallbackMessage("high")
                 ELSE IF branch = "logWorkout" THEN defaultWorkoutMessage
                 ELSE IF branch = "general" THEN fallbackGeneral
                 ELSE ReadOnlyMessage(branch))
  ELSE IF branch = "logWorkout" THEN CoalesceS(response.message, defaultWorkoutMessage)
  ELSE IF response.message \in {NULLS, ""}
       THEN (IF branch = "logMeal" THEN MealFallbackMessage(confidence) ELSE fallbackGeneral)
  ELSE response.message

CoachDone ==
  /\ pc = "coach" /\ InOrch
  /\ UNCHANGED uuid
  /\ \E remote \in CoachOutcomes :
       LET response == IF input.impl = "ai" THEN generateCoachResponse(remote)
                       ELSE CoachAgent_generateResponse(remote)
           message  == coachMessageOf(input.impl, req.branch, response,
                                      IF req.parsed = NULL THEN NULLS ELSE req.parsed.confidence)
           handlesInsight == req.branch \in {"logMeal", "logWorkout", "general"}
           plan     == appendInsightPlan(input.state.profile, response.insight)
           r        == [req EXCEPT !.coachKind = remote.kind,
                                   !.coachFailed = CoachFailed(remote),
                                   !.coachMessage = message]
       IN  IF handlesInsight /\ response.insight # NULLS /\ plan.save
           THEN Await("saveProfile", [r EXCEPT !.pendingProfile = plan.profile])
           ELSE IF handlesInsight /\ response.insight # NULLS
           THEN Return([r EXCEPT !.profileUpdate = plan.profile])
           ELSE Return(r)

\* await upsertUserProfile(...): the saved profile, or the local one
SaveProfileDone ==
  /\ pc = "saveProfile" /\ InOrch
  /\ UNCHANGED uuid
  /\ \E outcome \in SaveOutcomes :
       LET r == [req EXCEPT !.saveKind = outcome, !.profileUpdate = req.pendingProfile]
       IN  IF req.branch = "onboardingContinue"
           THEN Await("onboardingResponse", r)
           ELSE Return(r)

ProfileSummaryDone ==
  /\ pc = "profileSummary" /\ InOrch
  /\ UNCHANGED uuid
  /\ \E remote \in TextOutcomes :
       LET profileSummary == generateProfileSummary(remote)
       IN  Await("saveProfile",
                 [req EXCEPT !.textKind = remote.kind,
                             !.coachFailed = (remote.kind # "ok" \/ remote.message = ""),
                             !.pendingProfile.profileSummary = profileSummary,
                             !.coachMessage = profileSummary \o " Now, tell me about your day."])

OnboardingResponseDone ==
  /\ pc = "onboardingResponse" /\ InOrch
  /\ UNCHANGED uuid
  /\ \E remote \in TextOutcomes :
       Return([req EXCEPT !.textKind = remote.kind,
                          !.coachFailed = (remote.kind # "ok" \/ remote.message = ""),
                          !.coachMessage =
                            generateOnboardingResponse(req.pendingProfile.onboardingStep, remote)])

NextOrch ==
  \/ RouteOnboarding
  \/ RouteLogMeal
  \/ RouteLogWorkout
  \/ RouteReadOnly
  \/ RouteGenerative
  \/ RequestMealDraftDone
  \/ ParseMealDone
  \/ EnrichDone
  \/ NutritionistDone
  \/ CoachDone
  \/ SaveProfileDone
  \/ ProfileSummaryDone
  \/ OnboardingResponseDone

SpecOrch == InitOrch /\ [][NextOrch]_vars

C4_ParseNeverPropagates ==
  InOrch /\ (req.parseKind # "none" \/ req.draftKind \notin {"none", "routeFailure"}) =>
    LET kind == IF req.parseKind # "none" THEN req.parseKind ELSE req.draftKind
    IN  /\ req.parsed # NULL
        /\ req.parsed # THROWN
        /\ kind # "valid" =>
             /\ req.parsed.audit.source = "heuristic"
             /\ Len(req.parsed.items) = Len(input.text.parts)
        /\ req.parsed.audit.source = "llm" => kind = "valid"
        /\ req.parsed.audit.source \in {"heuristic", "llm"}

C4_Witness ==
  /\ InOrch
  /\ pc = "enrich"
  /\ input.impl = "ai"
  /\ req.parseKind = "schemaViolation"
  /\ req.parsed.audit.source = "heuristic"
  /\ Len(req.parsed.items) = 2

\* C5: when the remote nutrition capability is not configured or its call
\* fails, enrichNutrition returns normally with source heuristic and
\* confidence low, every item carries an estimate, the items that had one
\* are unchanged, and nothing of the failed answer is used.
C5_EnrichFallsBack ==
  InOrch /\ input.impl = "agents" /\ req.enrichKind \in {"noKey"} \cup EnrichFailures =>
    /\ req.enrichResult # THROWN
    /\ req.enrichResult.source = "heuristic"
    /\ req.enrichResult.confidence = "low"
    /\ Len(req.enrichResult.enrichedItems) = Len(req.parsed.items)
    /\ \A i \in 1..Len(req.parsed.items) :
         /\ req.enrichResult.enrichedItems[i].nutritionEstimate # NULL
         /\ req.parsed.items[i].nutritionEstimate # NULL =>
              req.enrichResult.enrichedItems[i] = req.parsed.items[i]
         /\ req.parsed.items[i].nutritionEstimate = NULL =>
              req.enrichResult.enrichedItems[i].nutritionEstimate.source = "heuristic"

\* C9: a logMeal request whose enrichment yielded n items carries exactly n
\* foodItemDrafts, one per enriched item in order, all with the one groupId
\* drawn for this request and each with its own id.
C9_DraftsPerItem ==
  InOrch /\ req.branch = "logMeal" /\ req.enrichKind # "none" /\ req.enrichResult # THROWN =>
    /\ req.hasDrafts
    /\ Len(req.drafts) = Len(req.enriched)
    /\ \A i \in 1..Len(req.drafts) :
         /\ req.drafts[i].payload.item = req.enriched[i]
         /\ req.drafts[i].groupId = req.groupId
         /\ req.drafts[i].id > req.uuid0
         /\ req.drafts[i].id <= uuid
         /\ \A j \in 1..Len(req.drafts) : i # j => req.drafts[i].id # req.drafts[j].id
    /\ req.groupId > req.uuid0
    /\ pc = "done" =>
         /\ output.hasFoodItemDrafts
         /\ output.foodItemDrafts = req.drafts

C9_Witness ==
  /\ InOrch
  /\ pc = "done"
  /\ input.impl = "agents"
  /\ output.hasFoodItemDrafts
  /\ Len(output.foodItemDrafts) = 2
  /\ output.foodItemDrafts[1].id # output.foodItemDrafts[2].id
  /\ output.foodItemDrafts[1].groupId = output.foodItemDrafts[2].groupId

(***************************************************************************)
(* The session store: CoachState, the coachReducer, the CoachProvider      *)
(* effects and the hooks that dispatch to it.  Identifiers and createdAt   *)
(* stamps are drawn from the uuid counter, so that a later record always   *)
(* carries a larger stamp; a message is kept by role and content.          *)
(***************************************************************************)
Users == {"u1", "u2"}

CoachMessage(role, content) == [role |-> role, content |-> content]

MealLog(id, userId, date, source, createdAt) ==
  [id |-> id, dayId |-> <<userId, date>>, date |-> date, source |-> source,
   createdAt |-> createdAt]

WorkoutLog(id, userId, date, createdAt) ==
  [id |-> id, dayId |-> <<userId, date>>, date |-> date, status |-> "completed",
   minutes |-> 20, createdAt |-> createdAt]

MealDraft(id, source) == [id |-> id, payload |-> [type |-> "lunch", source |-> source]]

DaySnapshot(date, meals, workouts, targets) ==
  [date |-> date, meals |-> meals, workouts |-> workouts, targets |-> targets]

defaultState ==
  [activeDate |-> "d1", userId |-> NULLS, profile |-> NULL, profileLoaded |-> FALSE,
   messages |-> <<CoachMessage("coach", "I'm your Coach.")>>,
   mealDrafts |-> <<>>, foodItemDrafts |-> <<>>, meals |-> <<>>, workouts |-> <<>>,
   weeklyPlan |-> "default", targets |-> "default"]

removeById_keeps(collection, id) == collection

\* collection.filter((x) => x.id !== id)
removeById(collection, id) == SelectSeq(collection, LAMBDA x : x.id # id)

findById(collection, id) == SelectSeq(collection, LAMBDA x : x.id = id)

upsertById(collection, nextItem) ==
  IF Len(findById(collection, nextItem.id)) = 0
  THEN Append(collection, nextItem)
  ELSE [i \in 1..Len(collection) |->
          IF i = CHOOSE j \in 1..Len(collection) : collection[j].id = nextItem.id
          THEN nextItem ELSE collection[i]]

\* Array.prototype.sort((a, b) => a.createdAt.localeCompare(b.createdAt)): stable
RECURSIVE sortByCreatedAt(_)
sortByCreatedAt(seq) ==
  IF Len(seq) = 0 THEN seq
  ELSE LET x      == seq[Len(seq)]
           sorted == sortByCreatedAt(SubSeq(seq, 1, Len(seq) - 1))
       IN  SelectSeq(sorted, LAMBDA y : y.createdAt <= x.createdAt)
             \o <<x>> \o SelectSeq(sorted, LAMBDA y : y.createdAt > x.createdAt)

syncDayReducer_dropsDrafts(state, snapshot) ==
  [state EXCEPT !.meals = snapshot.meals, !.workouts = snapshot.workouts,
                !.mealDrafts = <<>>, !.foodItemDrafts = <<>>]

syncDayReducer_keepsStale(state, snapshot) ==
  [state EXCEPT !.meals = sortByCreatedAt(state.meals \o snapshot.meals),
                !.workouts = sortByCreatedAt(state.workouts \o snapshot.workouts),
                !.targets = CoalesceS(snapshot.targets, state.targets)]

syncDayReducer(state, snapshot) ==
  LET mealsExcludingDate    == SelectSeq(state.meals, LAMBDA m : m.date # snapshot.date)
      workoutsExcludingDate == SelectSeq(state.workouts, LAMBDA w : w.date # snapshot.date)
  IN  [state EXCEPT !.meals = sortByCreatedAt(mealsExcludingDate \o snapshot.meals),
                    !.workouts = sortByCreatedAt(workoutsExcludingDate \o snapshot.workouts),
                    !.targets = CoalesceS(snapshot.targets, state.targets)]

\* the reducer; an action carries what the case reads, confirmFoodItemDraft
\* also the identifier crypto.randomUUID hands it
coachReducer(state, action) ==
  CASE action.type = "hydrate" ->
         [action.state EXCEPT !.profileLoaded = (action.state.profile # NULL)]
    [] action.type = "addMessage" ->
         [state EXCEPT !.messages = Append(state.messages, action.message)]
    [] action.type = "replaceMessages" ->
         [state EXCEPT !.messages = action.messages]
    [] action.type = "addMealDraft" ->
         [state EXCEPT !.mealDrafts = Append(state.mealDrafts, action.draft)]
    [] action.type = "removeMealDraft" ->
         [state EXCEPT !.mealDrafts = removeById(state.mealDrafts, action.draftId)]
    [] action.type = "addFoodItemDrafts" ->
         [state EXCEPT !.foodItemDrafts = state.foodItemDrafts \o action.drafts]
    [] action.type = "removeFoodItemDraft" ->
         [state EXCEPT !.foodItemDrafts = removeById(state.foodItemDrafts, action.draftId)]
    [] action.type = "updateFoodItemDraft" ->
         [state EXCEPT !.foodItemDrafts =
            [i \in 1..Len(state.foodItemDrafts) |->
               IF state.foodItemDrafts[i].id = action.draftId
               THEN [state.foodItemDrafts[i] EXCEPT !.payload.confidence = action.confidence]
               ELSE state.foodItemDrafts[i]]]
    [] action.type = "confirmFoodItemDraft" ->
         IF Len(findById(state.foodItemDrafts, action.draftId)) = 0 \/ state.userId = NULLS
         THEN state
         ELSE LET draft == findById(state.foodItemDrafts, action.draftId)[1]
                  meal  == MealLog(action.uuid, state.userId, state.activeDate,
                                   draft.payload.source, action.uuid)
              IN  [state EXCEPT !.meals = upsertById(state.meals, meal),
                                !.foodItemDrafts =
                                  removeById(state.foodItemDrafts, action.draftId)]
    [] action.type = "upsertMeal" ->
         [state EXCEPT !.meals = upsertById(state.meals, action.meal)]
    [] action.type = "removeMeal" ->
         [state EXCEPT !.meals = removeById(state.meals, action.mealId)]
    [] action.type = "upsertWorkout" ->
         [state EXCEPT !.workouts = upsertById(state.workouts, action.workout)]
    [] action.type = "removeWorkout" ->
         [state EXCEPT !.workouts = removeById(state.workouts, action.workoutId)]
    [] action.type = "setWeeklyPlan" -> [state EXCEPT !.weeklyPlan = action.plan]
    [] action.type = "setTargets" -> [state EXCEPT !.targets = action.targets]
    [] action.type = "syncDay" -> syncDayReducer(state, action.payload)
    [] action.type = "setProfile" ->
         [state EXCEPT !.profile = action.profile, !.profileLoaded = TRUE]
    [] action.type = "setUser" ->
         IF state.userId = action.userId THEN state
         ELSE [defaultState EXCEPT !.userId = action.userId,
                                   !.activeDate = state.activeDate]
    [] OTHER -> state

\* the dispatches of one synchronous stretch of a handler, in order
RECURSIVE Dispatch(_, _)
Dispatch(state, actions) ==
  IF Len(actions) = 0 THEN state
  ELSE Dispatch(coachReducer(state, Head(actions)), Tail(actions))

\* an asynchronous continuation in flight, with what its closure captured
Task(kind, at, key, userId, date, draftId, meal, intent, onboarding) ==
  [kind |-> kind, at |-> at, key |-> key, userId |-> userId, date |-> date,
   draftId |-> draftId, meal |-> meal, intent |-> intent, onboarding |-> onboarding]

EffectTask(kind, userId, date) ==
  Task(kind, "fetch", 0, userId, date, 0, NULL, NULLS, FALSE)

\* the step a handler took: who ran, for which user, and the dispatches it made
Step(handler, userId, draftId, ok, intent, dispatched) ==
  [handler |-> handler, userId |-> userId, draftId |-> draftId, ok |-> ok,
   intent |-> intent, dispatched |-> dispatched]

Types(actions) == [i \in 1..Len(actions) |-> actions[i].type]

Range(seq) == { seq[i] : i \in 1..Len(seq) }

Ids(collection) == { collection[i].id : i \in 1..Len(collection) }

EmptyRefs == [fetchedDates |-> {}, fetchedProfile |-> NULLS, loadedMessages |-> NULLS]

\* the effects with a reset effect that leaves fetchedDates as it is
CoachProviderEffects_keepsFetched(before, after, inFlight, r) ==
  LET userChanged == before.userId # after.userId
      key         == <<after.userId, after.activeDate>>
      kept        == { t \in inFlight :
                         ~(userChanged /\ t.kind \in {"dayFetch", "profileFetch", "historyFetch"}) }
      startsDay   == userChanged /\ after.userId # NULLS /\ key \notin r.fetchedDates
  IN  [tasks |-> kept \cup (IF startsDay
                            THEN {EffectTask("dayFetch", after.userId, after.activeDate)} ELSE {}),
       refs  |-> [r EXCEPT !.fetchedDates = IF startsDay THEN @ \cup {key} ELSE @]]

\* The CoachProvider effects that follow a render in which userId or
\* activeDate changed, in their order of declaration: the day fetch, the
\* reset of the refs, the profile fetch, the chat-history fetch.  The cleanup
\* of an effect sets its cancelled flag, after which its continuation
\* dispatches nothing: a cancelled continuation is dropped from tasks.
CoachProviderEffects(before, after, inFlight, r) ==
  LET userChanged == before.userId # after.userId
      dayChanged  == userChanged \/ before.activeDate # after.activeDate
      key         == <<after.userId, after.activeDate>>
      kept        == { t \in inFlight :
                         /\ ~(dayChanged /\ t.kind = "dayFetch")
                         /\ ~(userChanged /\ t.kind \in {"profileFetch", "historyFetch"}) }
      startsDay     == dayChanged /\ after.userId # NULLS /\ key \notin r.fetchedDates
      afterDay      == IF startsDay THEN [r EXCEPT !.fetchedDates = @ \cup {key}] ELSE r
      afterReset    == IF userChanged THEN EmptyRefs ELSE afterDay
      startsProfile == userChanged /\ after.userId # NULLS
                         /\ afterReset.fetchedProfile # after.userId
      startsHistory == userChanged /\ after.userId # NULLS
                         /\ afterReset.loadedMessages # after.userId
  IN  [tasks |-> kept
                   \cup (IF startsDay
                         THEN {EffectTask("dayFetch", after.userId, after.activeDate)} ELSE {})
                   \cup (IF startsProfile
                         THEN {EffectTask("profileFetch", after.userId, after.activeDate)} ELSE {})
                   \cup (IF startsHistory
                         THEN {EffectTask("historyFetch", after.userId, after.activeDate)} ELSE {}),
       refs  |-> [afterReset EXCEPT
                    !.fetchedProfile = IF startsProfile THEN after.userId ELSE @,
                    !.loadedMessages = IF startsHistory THEN after.userId ELSE @]]

StoreItem ==
  StructuredItem("banana", Quantity(2000, "count"),
                 Estimate(210000, 2600, 54000, 800, NULLN, "llm", 800), FALSE, FALSE)

CompletedProfile(u) == Profile(u, TRUE, 16, <<>>, "more", "summary")

\* what localStorage may hold at mount: nothing, the state of a signed-in
\* session, or the state of a session that never signed in
PersistedStates ==
  { NULL,
    [defaultState EXCEPT !.userId = "u1", !.profile = CompletedProfile("u1"),
                         !.foodItemDrafts = <<FoodItemDraft(1, 1, "lunch", StoreItem, "llm", "high")>>,
                         !.mealDrafts = <<MealDraft(2, "llm")>>,
                         !.meals = <<MealLog(3, "u1", "d1", "api", 3)>>],
    [defaultState EXCEPT !.foodItemDrafts = <<FoodItemDraft(1, 1, "lunch", StoreItem, "heuristic", "low")>>,
                         !.mealDrafts = <<MealDraft(2, "heuristic")>>] }

\* The provider is mounted: useReducer(coachReducer, defaultState), then the
\* mount effect dispatches hydrate with what localStorage held, then the
\* effects that depend on userId and activeDate run.
InitStore ==
  /\ pc = "store" /\ input = NULL /\ output = NULL /\ req = NULL /\ turn = 0
  /\ uuid = 3   \* the persisted records carry the identifiers 1..3
  /\ session = NULLS
  /\ \E parsed \in PersistedStates :
       LET hydrated == IF parsed = NULL THEN defaultState
                       ELSE coachReducer(defaultState, [type |-> "hydrate", state |-> parsed])
           effects  == CoachProviderEffects(defaultState, hydrated, {}, EmptyRefs)
       IN  /\ coachState = hydrated
           /\ tasks = effects.tasks
           /\ refs = effects.refs
           /\ last = Step("mount", hydrated.userId, 0, TRUE, NULLS,
                          IF parsed = NULL THEN <<>> ELSE <<"hydrate">>)

InStore == pc = "store"

orchVars == <<pc, input, output, req, turn>>

\* a handler step: the dispatches are reduced in order, then the provider
\* effects of the render that follows run
Handle(actions, inFlight, step) ==
  LET after   == Dispatch(coachState, actions)
      effects == CoachProviderEffects(coachState, after, inFlight, refs)
  IN  /\ coachState' = after
      /\ tasks' = effects.tasks
      /\ refs' = effects.refs
      /\ last' = [step EXCEPT !.dispatched = Types(actions)]
      /\ UNCHANGED orchVars

(***************************************************************************)
(* Bounds of the session: handlers start while fewer than MaxUuid          *)
(* identifiers were handed out and fewer than MaxPending hook calls are    *)
(* awaiting a collaborator.                                                *)
(***************************************************************************)
MaxUuid == 5
MaxPending == 1

StoreIntents == {"logMeal", "logWorkout"}

HookTasks == { t \in tasks : t.kind \in {"sendMessage", "confirm"} }

MayStart == uuid < MaxUuid /\ Cardinality(HookTasks) < MaxPending

\* CoachSessionSync: the session's user changed, setUser is dispatched
SessionChange ==
  /\ InStore
  /\ \E u \in Users \cup {NULLS} :
       /\ u # session
       /\ session' = u
       /\ Handle(<<[type |-> "setUser", userId |-> u]>>, tasks,
                 Step("CoachSessionSync", NULLS, 0, TRUE, NULLS, <<>>))
  /\ UNCHANGED uuid

\* what orchestrateCoachReply hands back to sendMessage, by the return
\* statement taken; used is the number of identifiers the request drew
CoachReply(coachMessage, mealDraft, drafts, hasDrafts, workoutLog, used) ==
  [coachMessage |-> coachMessage, mealDraft |-> mealDraft, foodItemDrafts |-> drafts,
   hasFoodItemDrafts |-> hasDrafts, workoutLog |-> workoutLog, used |-> used]

CoachReplies(t, u) ==
  IF t.onboarding
  THEN { CoachReply(Question(1), NULL, <<>>, FALSE, NULL, 0) }
  ELSE IF t.intent = "logMeal"
  THEN { CoachReply(MealFallbackMessage("high"), MealDraft(u + 1, "text"), <<>>, FALSE, NULL, 1),
         CoachReply(MealFallbackMessage("high"), NULL,
                    <<FoodItemDraft(u + 2, u + 1, "lunch", StoreItem, "llm", "high")>>,
                    TRUE, NULL, 2) }
  ELSE IF t.intent = "logWorkout"
  THEN IF t.userId = NULLS
       THEN { CoachReply(SignInMessage, NULL, <<>>, FALSE, NULL, 0) }
       ELSE { CoachReply(defaultWorkoutMessage, NULL, <<>>, FALSE,
                         WorkoutLog(u + 1, t.userId, t.date, u + 1), 1) }
  ELSE { CoachReply(fallbackGeneral, NULL, <<>>, FALSE, NULL, 0) }

\* useCoachChat.sendMessage up to the await of orchestrateCoachReply
SendMessage ==
  /\ InStore /\ MayStart
  /\ \E intent \in StoreIntents :
       Handle(<<[type |-> "addMessage", message |-> CoachMessage("user", "text")]>>,
              tasks \cup {Task("sendMessage", "orchestrate", uuid + 1, coachState.userId,
                               coachState.activeDate, 0, NULL, intent,
                               isInOnboarding(coachState))},
              Step("sendMessage", coachState.userId, 0, TRUE, intent, <<>>))
  /\ uuid' = uuid + 1
  /\ UNCHANGED session

sendMessageDispatches_logsMeal(userId, reply) ==
  (IF reply.mealDraft # NULL
   THEN <<[type |-> "addMealDraft", draft |-> reply.mealDraft],
          [type |-> "upsertMeal",
           meal |-> MealLog(reply.mealDraft.id, userId, "d1", "api", reply.mealDraft.id)]>>
   ELSE <<>>)
    \o <<[type |-> "addMessage", message |-> CoachMessage("coach", reply.coachMessage)]>>

\* the dispatches of sendMessage once the reply arrived
sendMessageDispatches(userId, reply) ==
  (IF reply.mealDraft # NULL
   THEN <<[type |-> "addMealDraft", draft |-> reply.mealDraft]>> ELSE <<>>)
    \o (IF reply.workoutLog # NULL /\ userId # NULLS
        THEN <<[type |-> "upsertWorkout", workout |-> reply.workoutLog]>> ELSE <<>>)
    \o <<[type |-> "addMessage", message |-> CoachMessage("coach", reply.coachMessage)]>>

SendMessageDone ==
  /\ InStore
  /\ \E t \in tasks :
       /\ t.kind = "sendMessage"
       /\ \E reply \in CoachReplies(t, uuid) :
            /\ Handle(sendMessageDispatches(t.userId, reply),
                      tasks \ {t},
                      Step("sendMessageDone", t.userId, 0, TRUE,
                           IF t.onboarding THEN "onboarding" ELSE t.intent, <<>>))
            /\ uuid' = uuid + reply.used + 1
  /\ UNCHANGED session

\* what every confirm does before it awaits confirmMealOnServer
ConfirmStart(handler, removal, draft, source) ==
  IF coachState.userId = NULLS
  THEN /\ Handle(<<>>, tasks, Step(handler, NULLS, draft.id, FALSE, NULLS, <<>>))
       /\ UNCHANGED uuid
  ELSE LET meal == MealLog(uuid + 1, coachState.userId, coachState.activeDate, source, uuid + 1)
       IN  /\ MayStart
           /\ Handle(<<[type |-> "upsertMeal", meal |-> meal],
                       [type |-> removal, draftId |-> draft.id]>>,
                     tasks \cup {Task("confirm", "persist", uuid + 1, coachState.userId,
                                      coachState.activeDate, draft.id, meal, handler, FALSE)},
                     Step(handler, coachState.userId, draft.id, TRUE, NULLS, <<>>))
           /\ uuid' = uuid + 1

\* useFoodItemDrafts.confirmFoodItem up to the await of confirmMealOnServer
ConfirmFoodItem ==
  /\ InStore
  /\ \E i \in 1..Len(coachState.foodItemDrafts) :
       LET draft == coachState.foodItemDrafts[i]
       IN  ConfirmStart("confirmFoodItem", "removeFoodItemDraft", draft,
                        IF draft.payload.source = "heuristic" THEN "est" ELSE "api")
  /\ UNCHANGED session

\* useMealDrafts.confirmDraft up to the await of confirmMealOnServer
ConfirmDraft ==
  /\ InStore
  /\ \E i \in 1..Len(coachState.mealDrafts) :
       ConfirmStart("confirmDraft", "removeMealDraft", coachState.mealDrafts[i], "api")
  /\ UNCHANGED session

ConfirmedMessage == CoachMessage("coach", "Meal logged.")

afterConfirmMealOnServer_rollsBack(t, ok) ==
  IF ok THEN [actions |-> <<>>, at |-> "fetch"]
  ELSE [actions |-> <<[type |-> "removeMeal", mealId |-> t.meal.id],
                      [type |-> "addMessage", message |-> ConfirmedMessage]>>,
        at |-> "done"]

\* the confirm after confirmMealOnServer answered: on ok it goes on to
\* fetchDaySnapshot, otherwise straight to the confirmation message
afterConfirmMealOnServer(t, ok) ==
  IF ok THEN [actions |-> <<>>, at |-> "fetch"]
  ELSE [actions |-> <<[type |-> "addMessage", message |-> ConfirmedMessage]>>,
        at |-> "done"]

ConfirmMealOnServerDone ==
  /\ InStore
  /\ \E t \in tasks, ok \in BOOLEAN :
       /\ t.kind = "confirm" /\ t.at = "persist"
       /\ LET next == afterConfirmMealOnServer(t, ok)
          IN  /\ Handle(next.actions,
                        (tasks \ {t}) \cup (IF next.at = "done" THEN {}
                                            ELSE {[t EXCEPT !.at = next.at]}),
                        Step("confirmMealOnServerDone", t.userId, t.draftId, ok, NULLS, <<>>))
              /\ uuid' = IF next.at = "done" THEN uuid + 1 ELSE uuid
  /\ UNCHANGED session

\* what fetchDaySnapshot(date) may answer: null on failure, else the day the
\* server holds: the records this session sent it, with or without a record
\* this session never saw
DaySnapshots(userId, date, known) ==
  { NULL, DaySnapshot(date, <<MealLog(90, userId, date, "api", 0)>> \o known, <<>>, NULLS) }
    \cup (IF Len(known) = 0 THEN {} ELSE { DaySnapshot(date, known, <<>>, NULLS) })

\* the confirm after fetchDaySnapshot answered
ConfirmSnapshotDone ==
  /\ InStore
  /\ \E t \in tasks :
       /\ t.kind = "confirm" /\ t.at = "fetch"
       /\ \E snapshot \in DaySnapshots(t.userId, t.date, <<t.meal>>) :
            Handle((IF snapshot # NULL
                    THEN <<[type |-> "syncDay", payload |-> snapshot]>> ELSE <<>>)
                     \o <<[type |-> "addMessage", message |-> ConfirmedMessage]>>,
                   tasks \ {t},
                   Step("confirmSnapshotDone", t.userId, t.draftId, snapshot # NULL, NULLS, <<>>))
  /\ uuid' = uuid + 1
  /\ UNCHANGED session

\* useFoodItemDrafts.dismissFoodItem
DismissFoodItem ==
  /\ InStore
  /\ \E id \in Ids(coachState.foodItemDrafts) :
       Handle(<<[type |-> "removeFoodItemDraft", draftId |-> id]>>, tasks,
              Step("dismissFoodItem", coachState.userId, id, TRUE, NULLS, <<>>))
  /\ UNCHANGED <<uuid, session>>

\* useMealDrafts.dismissDraft
DismissDraft ==
  /\ InStore
  /\ \E id \in Ids(coachState.mealDrafts) :
       Handle(<<[type |-> "removeMealDraft", draftId |-> id]>>, tasks,
              Step("dismissDraft", coachState.userId, id, TRUE, NULLS, <<>>))
  /\ UNCHANGED <<uuid, session>>

\* dispatch of addFoodItemDrafts (a case of coachReducer) with the drafts of a
\* reply, built as handleMealLogging builds them
AddFoodItemDrafts ==
  /\ InStore /\ uuid < MaxUuid
  /\ LET items == <<StoreItem>>
     IN  /\ Handle(<<[type |-> "addFoodItemDrafts",
                      drafts |-> convertToFoodItemDrafts(items, "lunch", uuid)]>>, tasks,
                   Step("addFoodItemDrafts", NULLS, 0, TRUE, NULLS, <<>>))
         /\ uuid' = uuid + 1 + Len(items)
  /\ UNCHANGED session

\* dispatch of confirmFoodItemDraft: the reducer itself turns the draft into a meal
ConfirmFoodItemDraft ==
  /\ InStore /\ uuid < MaxUuid
  /\ \E id \in Ids(coachState.foodItemDrafts) :
       Handle(<<[type |-> "confirmFoodItemDraft", draftId |-> id, uuid |-> uuid + 1]>>,
              tasks, Step("confirmFoodItemDraft", coachState.userId, id,
                          coachState.userId # NULLS, NULLS, <<>>))
  /\ uuid' = uuid + 1
  /\ UNCHANGED session

\* the day fetch of the provider answered
DayFetchDone ==
  /\ InStore
  /\ \E t \in tasks :
       /\ t.kind = "dayFetch"
       /\ \E snapshot \in DaySnapshots(t.userId, t.date, <<>>) :
            Handle(IF snapshot # NULL
                   THEN <<[type |-> "syncDay", payload |-> snapshot]>> ELSE <<>>,
                   tasks \ {t},
                   Step("dayFetchDone", NULLS, 0, TRUE, NULLS, <<>>))
  /\ UNCHANGED <<uuid, session>>

\* !profile?.onboardingCompleted && (profile?.onboardingStep ?? 0) === 0
needsOnboarding(profile) ==
  IF profile = NULL THEN TRUE
  ELSE ~profile.onboardingCompleted /\ CoalesceN(profile.onboardingStep, 0) = 0

\* the profile fetch of the provider answered
ProfileFetchDone ==
  /\ InStore
  /\ \E t \in tasks :
       /\ t.kind = "profileFetch"
       /\ \E profile \in {NULL, CompletedProfile(t.userId)} :
            Handle(<<[type |-> "setProfile", profile |-> profile]>>
                     \o (IF needsOnboarding(profile)
                         THEN <<[type |-> "replaceMessages",
                                 messages |-> <<CoachMessage("coach", "Welcome!")>>]>>
                         ELSE <<>>),
                   tasks \ {t},
                   Step("profileFetchDone", NULLS, 0, TRUE, NULLS, <<>>))
  /\ UNCHANGED <<uuid, session>>

\* the chat-history fetch of the provider answered; null and [] dispatch nothing
HistoryFetchDone ==
  /\ InStore
  /\ \E t \in tasks :
       /\ t.kind = "historyFetch"
       /\ \E messages \in {<<>>, <<CoachMessage("user", "earlier")>>} :
            Handle(IF Len(messages) = 0 THEN <<>>
                   ELSE <<[type |-> "replaceMessages", messages |-> messages]>>,
                   tasks \ {t},
                   Step("historyFetchDone", NULLS, 0, TRUE, NULLS, <<>>))
  /\ UNCHANGED <<uuid, session>>

Next ==
  \/ SessionChange
  \/ SendMessage
  \/ SendMessageDone
  \/ ConfirmFoodItem
  \/ ConfirmDraft
  \/ ConfirmMealOnServerDone
  \/ ConfirmSnapshotDone
  \/ DismissFoodItem
  \/ DismissDraft
  \/ AddFoodItemDrafts
  \/ ConfirmFoodItemDraft
  \/ DayFetchDone
  \/ ProfileFetchDone
  \/ HistoryFetchDone

Init == InitStore

Spec == Init /\ [][Next]_vars

(***************************************************************************)
(* Properties of the session store.                                        *)
(***************************************************************************)
DraftIds(state) == Ids(state.foodItemDrafts) \cup Ids(state.mealDrafts)

IsPrefix(s, t) == Len(s) <= Len(t) /\ SubSeq(t, 1, Len(s)) = s

ConfirmHandlers == {"confirmFoodItem", "confirmDraft", "confirmFoodItemDraft"}

DismissHandlers == {"dismissFoodItem", "dismissDraft"}

\* C6: when confirmMealOnServer reports ok = false for a confirm, that step
\* rolls nothing back: state.meals is left as it was (the meal added by
\* upsertMeal is still there if it was there), the drafts are left as they
\* were and the confirmed draft is in neither list, the step dispatches no
\* syncDay, and the confirm has no continuation left that could dispatch one.
C6_NoRollback ==
  [][(last'.handler = "confirmMealOnServerDone" /\ ~last'.ok)
       => /\ coachState'.meals = coachState.meals
          /\ coachState'.foodItemDrafts = coachState.foodItemDrafts
          /\ coachState'.mealDrafts = coachState.mealDrafts
          /\ last'.draftId \notin DraftIds(coachState')
          /\ "syncDay" \notin Range(last'.dispatched)
          /\ "removeMeal" \notin Range(last'.dispatched)
          /\ ~\E t \in tasks' : t.kind = "confirm" /\ t.draftId = last'.draftId]_vars

\* the persisted food item draft 1 was confirmed into the first record of the
\* session (identifier 4), persisting it failed, and the record is still in
\* state.meals while the draft is gone
C6_Witness ==
  /\ last.handler = "confirmMealOnServerDone" /\ ~last.ok /\ last.draftId = 1
  /\ 4 \in Ids(coachState.meals)
  /\ 1 \notin DraftIds(coachState)

C8_MealsOnlyOnConfirm ==
  [][/\ (Ids(coachState'.meals) \ Ids(coachState.meals) # {})
          => last'.handler \in ConfirmHandlers \cup {"confirmSnapshotDone", "dayFetchDone"}
     /\ (last'.handler \in {"sendMessage", "sendMessageDone"})
          => /\ coachState'.meals = coachState.meals
             /\ "upsertMeal" \notin Range(last'.dispatched)
             /\ "syncDay" \notin Range(last'.dispatched)
             /\ IsPrefix(coachState.mealDrafts, coachState'.mealDrafts)
             /\ coachState'.foodItemDrafts = coachState.foodItemDrafts]_vars

\* a logMeal message was processed and its draft was added
C8_Witness ==
  /\ last.handler = "sendMessageDone" /\ last.intent = "logMeal"
  /\ "addMealDraft" \in Range(last.dispatched)
  /\ Len(coachState.mealDrafts) > 0

\* C10: a logging attempt without a signed-in user (a logMeal or logWorkout
\* message, or a confirm of a meal / food item draft) ends with the sign-in
\* message as the newest message, and logs nothing.
C10_SignInSurfaced ==
  (/\ last.userId = NULLS
   /\ \/ last.handler \in {"confirmFoodItem", "confirmDraft"}
      \/ last.handler = "sendMessageDone" /\ last.intent \in {"logMeal", "logWorkout"})
    => /\ "addMessage" \in Range(last.dispatched)
       /\ coachState.messages[Len(coachState.messages)].content = SignInMessage
       /\ "upsertWorkout" \notin Range(last.dispatched)
       /\ "upsertMeal" \notin Range(last.dispatched)

(***************************************************************************)
(* A conversation: one orchestrateCoachReply request after another on the  *)
(* same profile, the caller applying the profileUpdate of each reply       *)
(* before it sends the next message.  turn counts the messages sent and,   *)
(* among them, those the intent classifier handled; a conversation has at  *)
(* most MaxTurns messages, at most MaxClassified of them classified.       *)
(***************************************************************************)
MaxTurns == 17
MaxClassified == 2

Turn(sent, classified) == [sent |-> sent, classified |-> classified]

Classified(state) == IF isInOnboarding(state) THEN 0 ELSE 1

ChatStates ==
  { Snapshot("u1", TRUE, NULL),
    Snapshot("u1", TRUE, Profile("u1", FALSE, 0, <<>>, NULLS, NULLS)),
    Snapshot("u1", TRUE, Profile("u1", FALSE, NULLN, <<>>, NULLS, NULLS)),
    Snapshot("u1", TRUE, Profile("u1", FALSE, -2, <<>>, NULLS, NULLS)) }   \* a negative onboardingStep

InitChat ==
  /\ pc = "route"
  /\ input \in [impl : Impls, state : ChatStates, text : OrchTexts]
  /\ output = NULL
  /\ uuid = 0
  /\ req = NewRequest(uuid)
  /\ turn = Turn(1, Classified(input.state))
  /\ NoStore

\* the profile the caller holds once it applied the reply's profileUpdate
applyProfileUpdate(state, reply) ==
  IF reply.profileUpdate = NULL THEN state
  ELSE [state EXCEPT !.profile = reply.profileUpdate, !.profileLoaded = TRUE]

\* the reply returned; the caller applies it and sends the next message
NextMessage ==
  /\ pc = "done" /\ InOrch
  /\ turn.sent < MaxTurns
  /\ LET state == applyProfileUpdate(input.state, output)
     IN  /\ turn.classified + Classified(state) <= MaxClassified
         /\ turn' = Turn(turn.sent + 1, turn.classified + Classified(state))
         /\ \E text \in OrchTexts : input' = [input EXCEPT !.state = state, !.text = text]
  /\ pc' = "route"
  /\ output' = NULL
  /\ req' = NewRequest(uuid)
  /\ UNCHANGED <<uuid, storeVars>>

NextChat == NextOrch \/ NextMessage

SpecChat == InitChat /\ [][NextChat]_vars

(***************************************************************************)
(* Properties of the router gate and of the onboarding flow.               *)
(***************************************************************************)
OnboardingBranches == {"onboarding", "onboardingFirst", "onboardingContinue", "onboardingComplete"}

Completed(state) == state.profile # NULL /\ state.profile.onboardingCompleted

StepOf(state) == IF state.profile = NULL THEN 0 ELSE CoalesceN(state.profile.onboardingStep, 0)

NoLoggingIn(reply) == ~reply.hasFoodItemDrafts /\ reply.foodItemDrafts = <<>> /\ reply.workoutLog = NULL

\* C11 as stated: a message is handled by the onboarding handler exactly when
\* a profile exists with onboardingCompleted false and onboardingStep unset
\* or >= 0; otherwise the intent classifier handles it.
C11_GateOnExistingProfile ==
  (InOrch /\ pc # "route") =>
    (req.branch \in OnboardingBranches
       <=> /\ input.state.profile # NULL
           /\ ~input.state.profile.onboardingCompleted
           /\ (input.state.profile.onboardingStep = NULLN
                 \/ input.state.profile.onboardingStep >= 0))

\* the gate as the router applies it to a state
GateOpen(state) ==
  /\ state.profileLoaded
  /\ \/ state.profile = NULL
     \/ /\ ~state.profile.onboardingCompleted
        /\ (state.profile.onboardingStep = NULLN \/ state.profile.onboardingStep >= 0)

\* C11 (amended): a message is handled by the onboarding handler exactly when
\* the profile has been loaded and is either absent or has onboardingCompleted
\* false with onboardingStep unset or >= 0, and then the reply carries no
\* drafts and no workoutLog; otherwise the intent classifier handles it.  When
\* the state's profile is completed, or the reply's profileUpdate is, the
\* state with the reply applied has a completed profile and a closed gate:
\* so no later message is handled by the onboarding handler.
C11_GateOnLoadedProfile ==
  (InOrch /\ pc # "route") =>
    /\ req.branch \in OnboardingBranches <=> GateOpen(input.state)
    /\ (pc = "done" /\ req.branch \in OnboardingBranches) => NoLoggingIn(output)
    /\ (pc = "done" /\ (Completed(input.state) \/ Completed([profile |-> output.profileUpdate])))
         => /\ Completed(applyProfileUpdate(input.state, output))
            /\ ~GateOpen(applyProfileUpdate(input.state, output))

\* the last onboarding answer: the reply completes the profile, and with it
\* applied the gate is closed
C11_Witness ==
  /\ InOrch /\ pc = "done" /\ input.impl = "ai"
  /\ req.branch = "onboardingComplete"
  /\ GateOpen(input.state)
  /\ output.profileUpdate.onboardingCompleted
  /\ ~GateOpen(applyProfileUpdate(input.state, output))

\* C12: a profile with onboardingStep 0 or unset and onboardingCompleted
\* false: whatever the message, the reply carries a profileUpdate with
\* onboardingStep = 1, onboardingCompleted = false and the onboarding data
\* unchanged, and its coachMessage is the question of step 1.
C12_FirstMessage ==
  (/\ InOrch /\ pc = "done"
   /\ input.state.profileLoaded /\ input.state.profile # NULL
   /\ ~input.state.profile.onboardingCompleted
   /\ input.state.profile.onboardingStep \in {0, NULLN})
    => /\ output.coachMessage = Question(1)
       /\ output.profileUpdate # NULL
       /\ output.profileUpdate.onboardingStep = 1
       /\ ~output.profileUpdate.onboardingCompleted
       /\ output.profileUpdate.onboardingDepth = input.state.profile.onboardingDepth

Returned(r) ==
  (IF r.draftKind # "none" THEN {"requestMealDraft"} ELSE {})
    \cup (IF r.parseKind # "none" THEN {"parseMeal"} ELSE {})
    \cup (IF r.enrichKind # "none" THEN {"enrich"} ELSE {})
    \cup (IF r.nutritionistKind # "none" THEN {"nutritionist"} ELSE {})
    \cup (IF r.coachKind # "none" THEN {"coach"} ELSE {})
    \cup (IF r.saveKind # "none" THEN {"saveProfile"} ELSE {})

\* C14: a request awaits one external call at a time (pc names it), and for
\* a logMeal message in the order remote parse, enrichment, coaching reply,
\* profile upsert: while a call is awaited, the calls before it have returned
\* or failed and neither it nor a call after it has.
C14_AwaitedInOrder ==
  (InOrch /\ req.branch = "logMeal") =>
    /\ pc = "requestMealDraft" => Returned(req) = {}
    /\ pc = "parseMeal" =>
         Returned(req) = (IF input.impl = "ai" THEN {"requestMealDraft"} ELSE {})
    /\ pc = "enrich" =>
         /\ Returned(req) \subseteq {"requestMealDraft", "parseMeal"}
         /\ Returned(req) # {}
         /\ req.parsed # NULL
    /\ pc = "nutritionist" =>
         Returned(req) = {"parseMeal", "enrich"}
    /\ pc = "coach" =>
         /\ {"enrich"} \subseteq Returned(req)
         /\ Returned(req) \cap {"coach", "saveProfile"} = {}
         /\ (input.impl = "agents" => "nutritionist" \in Returned(req))
    /\ pc = "saveProfile" =>
         /\ {"enrich", "coach"} \subseteq Returned(req)
         /\ "saveProfile" \notin Returned(req)

\* the upsert of an insight is awaited after the remote parse, the local
\* parse, the enrichment and the coaching reply of a logMeal request returned
C14_Witness ==
  /\ InOrch /\ input.impl = "ai" /\ req.branch = "logMeal"
  /\ pc = "saveProfile"
  /\ Returned(req) = {"requestMealDraft", "parseMeal", "enrich", "coach"}

(***************************************************************************)
(* The reducer alone: any sequence of actions dispatched to coachReducer.  *)
(* A sequence has at most MaxDispatches actions (turn counts them), and    *)
(* draft ids come from DraftIdPool.                                        *)
(***************************************************************************)
MaxDispatches == 4

DraftIdPool == {1, 2}

\* the actions a dispatch may carry in a given state
ReducerActions(state, u) ==
  { [type |-> "hydrate", state |-> p] : p \in PersistedStates \ {NULL} }
    \cup { [type |-> "addMessage", message |-> CoachMessage("user", "text")] }
    \cup { [type |-> "replaceMessages", messages |-> <<CoachMessage("coach", "Welcome!")>>] }
    \cup { [type |-> "addMealDraft", draft |-> MealDraft(id, "llm")] :
             id \in DraftIdPool \ Ids(state.mealDrafts) }
    \cup { [type |-> "removeMealDraft", draftId |-> id] : id \in DraftIdPool }
    \cup { [type |-> "addFoodItemDrafts",
            drafts |-> <<FoodItemDraft(id, id, "lunch", StoreItem, "llm", "high")>>] :
             id \in DraftIdPool \ Ids(state.foodItemDrafts) }
    \cup { [type |-> "removeFoodItemDraft", draftId |-> id] : id \in DraftIdPool }
    \cup { [type |-> "updateFoodItemDraft", draftId |-> id, confidence |-> "low"] :
             id \in DraftIdPool }
    \cup { [type |-> "confirmFoodItemDraft", draftId |-> id, uuid |-> u + 1] :
             id \in DraftIdPool }
    \cup { [type |-> "upsertMeal", meal |-> MealLog(3, "u1", "d1", s, 3)] : s \in {"api", "manual"} }
    \cup { [type |-> "removeMeal", mealId |-> 3] }
    \cup { [type |-> "upsertWorkout", workout |-> WorkoutLog(3, "u1", "d1", 3)] }
    \cup { [type |-> "removeWorkout", workoutId |-> 3] }
    \cup { [type |-> "setWeeklyPlan", plan |-> "custom"] }
    \cup { [type |-> "setTargets", targets |-> "custom"] }
    \cup { [type |-> "syncDay", payload |-> s] : s \in DaySnapshots("u1", "d1", <<>>) \ {NULL} }
    \cup { [type |-> "setProfile", profile |-> p] : p \in {NULL, CompletedProfile("u1")} }
    \cup { [type |-> "setUser", userId |-> id] : id \in Users \cup {NULLS} }

InitReducer ==
  /\ pc = "reducer" /\ input = NULL /\ output = NULL /\ req = NULL
  /\ turn = 0
  /\ uuid = 3
  /\ coachState = defaultState
  /\ session = NULLS /\ refs = NULL /\ tasks = {} /\ last = NULL

\* dispatch(action): the state becomes coachReducer(state, action)
Reduce ==
  /\ pc = "reducer"
  /\ turn < MaxDispatches
  /\ turn' = turn + 1
  /\ \E action \in ReducerActions(coachState, uuid) :
       /\ coachState' = coachReducer(coachState, action)
       /\ last' = action
       /\ uuid' = IF action.type = "confirmFoodItemDraft" THEN uuid + 1 ELSE uuid
  /\ UNCHANGED <<pc, input, output, req, session, refs, tasks>>

NextReducer == Reduce

SpecReducer == InitReducer /\ [][NextReducer]_vars

DraftsUnchanged == 
  /\ coachState'.mealDrafts = coachState.mealDrafts
  /\ coachState'.foodItemDrafts = coachState.foodItemDrafts

\* C15 as stated: addMessage, replaceMessages, upsertMeal, removeMeal,
\* upsertWorkout, syncDay, setProfile, setTargets, setWeeklyPlan, setUser and
\* hydrate leave mealDrafts and foodItemDrafts unchanged.
C15_OtherActionsKeepDrafts ==
  [][last'.type \in {"addMessage", "replaceMessages", "upsertMeal", "removeMeal",
                     "upsertWorkout", "syncDay", "setProfile", "setTargets",
                     "setWeeklyPlan", "setUser", "hydrate"}
       => DraftsUnchanged]_vars

\* C15 (amended): the lists grow only by the add actions, which append; they
\* shrink only by the remove actions and confirmFoodItemDraft, which take out
\* the draft of the given id; updateFoodItemDraft edits a draft in place;
\* setUser with another user id empties both lists and hydrate replaces them
\* with the lists of the hydrated state; every other action leaves both
\* lists unchanged.
C15_DraftWriters ==
  [][LET type == last'.type
         meal == coachState.mealDrafts
         food == coachState.foodItemDrafts
         meal1 == coachState'.mealDrafts
         food1 == coachState'.foodItemDrafts
     IN  /\ type \in {"addMessage", "replaceMessages", "upsertMeal", "removeMeal",
                      "upsertWorkout", "removeWorkout", "syncDay", "setProfile",
                      "setTargets", "setWeeklyPlan"}
              => DraftsUnchanged
         /\ type = "setUser"
              => IF last'.userId = coachState.userId THEN DraftsUnchanged
                 ELSE meal1 = <<>> /\ food1 = <<>>
         /\ type = "hydrate"
              => meal1 = last'.state.mealDrafts /\ food1 = last'.state.foodItemDrafts
         /\ type = "addMealDraft" => meal1 = Append(meal, last'.draft) /\ food1 = food
         /\ type = "addFoodItemDrafts" => food1 = food \o last'.drafts /\ meal1 = meal
         /\ type = "removeMealDraft"
              => /\ meal1 = SelectSeq(meal, LAMBDA d : d.id # last'.draftId)
                 /\ food1 = food
         /\ type \in {"removeFoodItemDraft", "confirmFoodItemDraft"}
              => /\ food1 \in {food, SelectSeq(food, LAMBDA d : d.id # last'.draftId)}
                 /\ (type = "removeFoodItemDraft" => last'.draftId \notin Ids(food1))
                 /\ meal1 = meal
         /\ type = "updateFoodItemDraft"
              => /\ meal1 = meal
                 /\ [i \in 1..Len(food1) |-> food1[i].id] = [i \in 1..Len(food) |-> food[i].id]]_vars

\* a day re-sync was reduced while both lists held a draft, and they still do
C15_Witness ==
  /\ pc = "reducer" /\ last # NULL /\ last.type = "syncDay"
  /\ coachState.mealDrafts # <<>> /\ coachState.foodItemDrafts # <<>>
  /\ coachState.meals # <<>>

(***************************************************************************)
(* The insights a profile retains: the insight of each coaching answer is  *)
(* parsed by generateCoachResponse and, when there is one, handed to       *)
(* appendInsightToProfile together with the profile the previous call      *)
(* returned.                                                               *)
(***************************************************************************)
MaxAppends == 3

Insight(k) == "insight " \o ToString(k)

\* a retained list of k insights, the most recent first
Retained(k) == [j \in 1..k |-> Insight(j)]

InsightProfiles ==
  {NULL, Profile(NULLS, TRUE, NumOnboardingSteps, <<>>, NULLS, NULLS)}
    \cup { Profile("u1", TRUE, NumOnboardingSteps, Retained(k), NULLS, NULLS) :
             k \in {0, 1, MaxInsights - 1, MaxInsights} }

RawInsights ==
  {NULLS, "", " ", " \t\n", "none", "None", "  NONE\n", "likes oats", " likes oats  ",
   "prefers tea", "nonetheless tired", Insight(1), Insight(2) \o " ", "\t" \o Insight(MaxInsights)}

Appended(before, raw, insight, called, save, saveKind) ==
  [before |-> before, raw |-> raw, insight |-> insight, called |-> called, save |-> save,
   saveKind |-> saveKind]

InitInsight ==
  /\ pc = "insight"
  /\ input \in [profile : InsightProfiles]
  /\ output = NULL /\ req = NULL
  /\ uuid = 0 /\ turn = 0 /\ NoStore

\* if (aiResponse.insight) { updated = await appendInsightToProfile(state.profile, insight);
\* if (updated) profileUpdate = updated }
AppendInsight ==
  /\ pc = "insight" /\ turn < MaxAppends
  /\ turn' = turn + 1
  /\ \E raw \in RawInsights :
       LET insight == parseInsight(raw)
           plan    == appendInsightPlan(input.profile, insight)
       IN  IF insight = NULLS
           THEN /\ req' = Appended(input.profile, raw, insight, FALSE, FALSE, "none")
                /\ output' = NULL
                /\ input' = input
           ELSE /\ \E outcome \in IF plan.save THEN SaveOutcomes ELSE {"none"} :
                     req' = Appended(input.profile, raw, insight, TRUE, plan.save, outcome)
                /\ output' = plan.profile
                /\ input' = IF plan.profile = NULL THEN input ELSE [profile |-> plan.profile]
  /\ UNCHANGED <<pc, uuid, storeVars>>

NextInsight == AppendInsight

SpecInsight == InitInsight /\ [][NextInsight]_vars

Blank(raw) == \A i \in 1..Len(raw) : Char(raw, i) \in Whitespace

NoInsight(raw) == raw = NULLS \/ Blank(raw) \/ raw \in {"none", "None", "  NONE\n"}

\* C16: the retained list never exceeds 20 entries and, after an update,
\* has the newest insight first; an insight equal to the most recent retained
\* one returns the profile unchanged without an upsert; an absent, empty,
\* whitespace-only or "none" insight produces no profile update
C16_RetainedInsights ==
  /\ input.profile # NULL => Len(input.profile.insights) <= MaxInsights
  /\ req # NULL =>
       /\ output # NULL =>
            /\ Len(output.insights) <= MaxInsights
            /\ output.insights # <<>> /\ Head(output.insights) = req.insight
            /\ req.insight \notin {"", "none"} /\ ~Blank(req.insight)
       /\ req.save =>
            /\ output # NULL
            /\ \A i \in 2..Len(output.insights) : output.insights[i] # req.insight
            /\ \A i \in 1..Len(req.before.insights) :
                 req.before.insights[i] = req.insight
                   \/ i = MaxInsights
                   \/ \E j \in 2..Len(output.insights) : output.insights[j] = req.before.insights[i]
       /\ (req.before # NULL /\ req.called /\ req.before.insights # <<>>
             /\ Head(req.before.insights) = req.insight) =>
            output = req.before /\ ~req.save
       /\ NoInsight(req.raw) => output = NULL /\ ~req.called /\ ~req.save /\ input.profile = req.before

\* a 21st insight reaches a full list and the oldest entry is dropped
C16_Witness ==
  /\ req # NULL /\ req.save /\ req.saveKind = "failed"
  /\ Len(req.before.insights) = MaxInsights /\ Len(output.insights) = MaxInsights
  /\ Head(output.insights) = "likes oats" /\ req.raw = " likes oats  "
  /\ output.insights[MaxInsights] # req.before.insights[MaxInsights]

(***************************************************************************)
(* The intent classifier.                                                  *)
(***************************************************************************)
\* String.prototype.includes
includes(s, sub) == \E i \in 1..(Len(s) - Len(sub) + 1) : SubSeq(s, i, i + Len(sub) - 1) = sub

\* \w of a regular expression
WordChars == LowerCase \o UpperCase \o "0123456789_"

isWordChar(c) == \E i \in 1..Len(WordChars) : Char(WordChars, i) = c

\* new RegExp(`\\b${keyword}\\b`).test(s), for a keyword that starts and ends
\* with a word character
matchesWord(s, keyword) ==
  \E i \in 1..(Len(s) - Len(keyword) + 1) :
     /\ SubSeq(s, i, i + Len(keyword) - 1) = keyword
     /\ (i = 1 \/ ~isWordChar(Char(s, i - 1)))
     /\ (i + Len(keyword) > Len(s) \/ ~isWordChar(Char(s, i + Len(keyword))))

mealKeywords ==
  {"ate", "eating", "breakfast", "lunch", "dinner", "snack", "had", "having", "slice", "pizza",
   "apple", "cheese", "bread", "egg", "eggs", "cottage", "muffin", "meal", "food", "drink",
   "coffee", "smoothie", "salad", "sandwich", "burger", "chicken", "beef", "pasta", "rice"}

workoutKeywords ==
  {"ran", "run", "walk", "walked", "yoga", "lifted", "workout", "ride", "cycled", "swam",
   "pushup", "push-ups", "pushups", "squat", "lunges", "mobility", "plank"}

planKeywords == {"plan", "today", "workout plan"}

nutritionKeywords == {"protein", "macros", "calories", "nutrition", "eat"}

progressKeywords == {"progress", "week", "adherence", "how am i doing"}

isNutritionQuestion(normalized) ==
  \/ includes(normalized, "estimate")
  \/ includes(normalized, "how many calories")
  \/ includes(normalized, "nutrition info")
  \/ includes(normalized, "nutritional value")
  \/ (includes(normalized, "what")
        /\ (includes(normalized, "protein") \/ includes(normalized, "calories")))

Intent(type, mood, text) == [type |-> type, mood |-> mood, text |-> text]

detectIntent_workoutFirst(message) ==
  LET normalized == toLowerCase(message)
  IN  IF isNutritionQuestion(normalized) THEN Intent("unknown", NULLS, NULLS)
      ELSE IF \E keyword \in workoutKeywords : matchesWord(normalized, keyword)
      THEN Intent("logWorkout", NULLS, message)
      ELSE IF \E keyword \in mealKeywords : matchesWord(normalized, keyword)
      THEN Intent("logMeal", NULLS, message)
      ELSE Intent("unknown", NULLS, NULLS)

detectIntent(message) ==
  LET normalized == toLowerCase(message)
  IN  IF isNutritionQuestion(normalized) THEN Intent("unknown", NULLS, NULLS)
      ELSE IF \E keyword \in mealKeywords : matchesWord(normalized, keyword)
      THEN Intent("logMeal", NULLS, message)
      ELSE IF \E keyword \in workoutKeywords : matchesWord(normalized, keyword)
      THEN Intent("logWorkout", NULLS, message)
      ELSE IF includes(normalized, "tired") \/ includes(normalized, "exhausted")
      THEN Intent("statusUpdate", "tired", NULLS)
      ELSE IF includes(normalized, "sore") THEN Intent("statusUpdate", "sore", NULLS)
      ELSE IF includes(normalized, "energized") \/ includes(normalized, "great")
      THEN Intent("statusUpdate", "energized", NULLS)
      ELSE IF \E keyword \in planKeywords : includes(normalized, keyword)
      THEN Intent("askPlan", NULLS, NULLS)
      ELSE IF (\E keyword \in nutritionKeywords : includes(normalized, keyword))
                /\ includes(normalized, "how")
      THEN Intent("askNutritionSummary", NULLS, NULLS)
      ELSE IF \E keyword \in progressKeywords : includes(normalized, keyword)
      THEN Intent("askProgress", NULLS, NULLS)
      ELSE IF includes(normalized, "hi") \/ includes(normalized, "hello")
                \/ includes(normalized, "thanks")
      THEN Intent("smallTalk", NULLS, NULLS)
      ELSE Intent("unknown", NULLS, NULLS)

Phrases ==
  {"", "let's estimate calories", "I ATE Pizza", "created a runway", "ran 5k", "did push-ups",
   "so tired", "Exhausted", "sore legs", "feeling great", "what's the plan", "how much protein",
   "my macros", "my progress", "hello", "ok", "what about calories", "bread,"}

Messages == { a \o " " \o b : a, b \in Phrases }

InitIntent ==
  /\ pc = "classify"
  /\ input \in Messages
  /\ output = NULL /\ req = NULL
  /\ uuid = 0 /\ turn = 0 /\ NoStore

Classify ==
  /\ pc = "classify"
  /\ output' = detectIntent(input)
  /\ pc' = "classified"
  /\ UNCHANGED <<input, req, uuid, turn, storeVars>>

NextIntent == Classify

SpecIntent == InitIntent /\ [][NextIntent]_vars

\* the first of the checks, in their order, that the lower-cased message n
\* matches; the nutrition keyword group needs "how" as well when needsHow
FirstMatch(n, needsHow) ==
  IF \/ includes(n, "estimate") \/ includes(n, "how many calories")
     \/ includes(n, "nutrition info") \/ includes(n, "nutritional value")
     \/ (includes(n, "what") /\ (includes(n, "protein") \/ includes(n, "calories")))
  THEN Intent("unknown", NULLS, NULLS)
  ELSE IF \E word \in mealKeywords : matchesWord(n, word) THEN Intent("logMeal", NULLS, input)
  ELSE IF \E word \in workoutKeywords : matchesWord(n, word)
  THEN Intent("logWorkout", NULLS, input)
  ELSE IF includes(n, "tired") \/ includes(n, "exhausted")
  THEN Intent("statusUpdate", "tired", NULLS)
  ELSE IF includes(n, "sore") THEN Intent("statusUpdate", "sore", NULLS)
  ELSE IF includes(n, "energized") \/ includes(n, "great")
  THEN Intent("statusUpdate", "energized", NULLS)
  ELSE IF \E word \in planKeywords : includes(n, word) THEN Intent("askPlan", NULLS, NULLS)
  ELSE IF (\E word \in nutritionKeywords : includes(n, word)) /\ (needsHow => includes(n, "how"))
  THEN Intent("askNutritionSummary", NULLS, NULLS)
  ELSE IF \E word \in progressKeywords : includes(n, word)
  THEN Intent("askProgress", NULLS, NULLS)
  ELSE IF includes(n, "hi") \/ includes(n, "hello") \/ includes(n, "thanks")
  THEN Intent("smallTalk", NULLS, NULLS)
  ELSE Intent("unknown", NULLS, NULLS)

\* the two cases the contract singles out, on messages written out in full
InParticular ==
  /\ output.type \in Intents
  /\ input \in {"I ATE Pizza ran 5k", "ran 5k I ATE Pizza", "did push-ups bread,"}
       => output = Intent("logMeal", NULLS, input)
  /\ input \in {"let's estimate calories ", " let's estimate calories",
                "let's estimate calories I ATE Pizza", "created a runway ok"}
       => output.type # "logMeal"

\* C17 as stated: the checks apply in their order and the nutrition keyword
\* group alone gives askNutritionSummary
C17_KeywordGroups ==
  pc = "classified" => output = FirstMatch(toLowerCase(input), FALSE) /\ InParticular

\* C17: the checks apply in their order, the first match is returned, and the
\* nutrition keyword group gives askNutritionSummary when the message also
\* contains "how"; a message with a meal and a workout keyword is logMeal and
\* "let's estimate calories" is not logMeal
C17_OrderedChecks ==
  pc = "classified" => output = FirstMatch(toLowerCase(input), TRUE) /\ InParticular

\* a message with a meal word and a workout word that is no nutrition question
C17_Witness ==
  /\ pc = "classified" /\ input = "ran 5k I ATE Pizza"
  /\ output = Intent("logMeal", NULLS, "ran 5k I ATE Pizza")

(***************************************************************************)
(* Unit normalisation of the meal parser.                                  *)
(***************************************************************************)
MealQuantityUnit ==
  {"count", "slice", "cup", "oz_fl", "oz", "g", "ml", "tbsp", "tsp", "serving", "packet",
   "bottle", "pint", "can", "other"}

\* String.prototype.replace(/\./g, '')
RECURSIVE removeDots(_)
removeDots(s) ==
  IF s = "" THEN ""
  ELSE (IF Char(s, 1) = "." THEN "" ELSE Char(s, 1)) \o removeDots(From(s, 2))

normalizeUnit(raw) ==
  IF raw \in {NULLS, ""} THEN NULLS
  ELSE LET unit == removeDots(toLowerCase(raw))
       IN  CASE unit \in {"cup", "cups", "c"} -> "cup"
             [] unit \in {"tablespoon", "tablespoons", "tbsp", "tbsps"} -> "tbsp"
             [] unit \in {"teaspoon", "teaspoons", "tsp", "tsps"} -> "tsp"
             [] unit \in {"ounce", "ounces", "oz"} -> "oz"
             [] unit = "oz_fl" -> "oz_fl"
             [] unit \in {"gram", "grams", "g"} -> "g"
             [] unit \in {"serving", "servings"} -> "serving"
             [] unit \in {"packet", "packets"} -> "packet"
             [] unit \in {"piece", "pieces"} -> "count"
             [] unit \in {"slice", "slices"} -> "slice"
             [] OTHER -> "other"

RawUnits ==
  MealQuantityUnit
    \cup {NULLS, "", "cups", "c", "Cup", "tablespoon", "tablespoons", "tbsps", "Tbsp.", "teaspoon",
          "teaspoons", "tsps", "ounce", "ounces", "OZ", "gram", "grams", "G", "servings",
          "packets", "piece", "pieces", "slices", "fl. oz", "handful", ".", "ML", "cans"}

InitUnit ==
  /\ pc = "raw"
  /\ input \in RawUnits
  /\ output = NULL /\ req = NULL
  /\ uuid = 0 /\ turn = 0 /\ NoStore

\* parseQuantity: unit: normalizeUnit(match[2])
NormalizeParsed ==
  /\ pc = "raw"
  /\ output' = normalizeUnit(input)
  /\ pc' = "parsed"
  /\ UNCHANGED <<input, req, uuid, turn, storeVars>>

\* normalizeItem: unit: normalizeUnit(quantity.unit ?? undefined), on the unit
\* of a quantity that was parsed before
NormalizeStructured ==
  /\ pc = "parsed"
  /\ req' = normalizeUnit(output)
  /\ pc' = "structured"
  /\ UNCHANGED <<input, output, uuid, turn, storeVars>>

NextUnit == NormalizeParsed \/ NormalizeStructured

SpecUnit == InitUnit /\ [][NextUnit]_vars

\* C18: normalizeUnit is idempotent, returns every canonical unit unchanged,
\* gives null for empty or absent input and other for an unknown non-empty
\* token
C18_Idempotent ==
  /\ pc \in {"parsed", "structured"} =>
       /\ input \in MealQuantityUnit => output = input
       /\ input \in {NULLS, ""} <=> output = NULLS
       /\ output \in MealQuantityUnit \cup {NULLS}
       /\ input \in {"handful", "cans"} => output = "other"
  /\ pc = "structured" => req = output

(***************************************************************************)
(* The workout parser.                                                     *)
(***************************************************************************)
Digits == "0123456789"

isDigit(c) == \E i \in 1..Len(Digits) : Char(Digits, i) = c

allDigits(s) == Len(s) > 0 /\ \A i \in 1..Len(s) : isDigit(Char(s, i))

\* Number(s) of a string of digits
RECURSIVE toNumber(_)
toNumber(s) ==
  IF s = "" THEN 0
  ELSE toNumber(SubSeq(s, 1, Len(s) - 1)) * 10
         + (CHOOSE i \in 1..Len(Digits) : Char(Digits, i) = Char(s, Len(s))) - 1

RECURSIVE Pow10(_)
Pow10(k) == IF k = 0 THEN 1 ELSE 10 * Pow10(k - 1)

startsWithAt(s, i, word) == i + Len(word) - 1 <= Len(s) /\ SubSeq(s, i, i + Len(word) - 1) = word

\* \s?(?:a|b|...) at position i
unitAt(s, i, units) ==
  \E unit \in units :
     \/ startsWithAt(s, i, unit)
     \/ (i <= Len(s) /\ Char(s, i) \in Whitespace /\ startsWithAt(s, i + 1, unit))

\* normalized.match(/(\d{1,3})\s?(?:min|mins|minute|minutes)/): the captured
\* digits of the leftmost match, or null
minutesMatch(s) ==
  LET units   == {"min", "mins", "minute", "minutes"}
      at(i)   == { d \in 1..3 : i + d - 1 <= Len(s) /\ allDigits(SubSeq(s, i, i + d - 1))
                                  /\ unitAt(s, i + d, units) }
      starts  == { i \in 1..Len(s) : at(i) # {} }
  IN  IF starts = {} THEN NULLS
      ELSE LET i == CHOOSE x \in starts : \A y \in starts : x <= y
               d == CHOOSE x \in at(i) : \A y \in at(i) : x >= y
           IN  SubSeq(s, i, i + d - 1)

\* a decimal number: digits with the last `scale` of them after the point
Decimal(digits, scale) == [digits |-> digits, scale |-> scale]

\* normalized.match(/(\d+(?:\.\d+)?)\s?(?:mile|miles|km|kilometers)/): the
\* captured number of the leftmost match, or null
milesMatch(s) ==
  LET units   == {"mile", "miles", "km", "kilometers"}
      whole(i) == { a \in 1..(Len(s) - i + 1) : allDigits(SubSeq(s, i, i + a - 1)) }
      at(i)   == { Decimal(SubSeq(s, i, i + a - 1), 0) :
                     a \in { x \in whole(i) : unitAt(s, i + x, units) } }
                   \cup { Decimal(SubSeq(s, i, i + ab[1] - 1)
                                    \o SubSeq(s, i + ab[1] + 1, i + ab[1] + ab[2]), ab[2]) :
                            ab \in { xy \in whole(i) \X (1..Len(s)) :
                                       /\ i + xy[1] + xy[2] <= Len(s)
                                       /\ Char(s, i + xy[1]) = "."
                                       /\ allDigits(SubSeq(s, i + xy[1] + 1, i + xy[1] + xy[2]))
                                       /\ unitAt(s, i + xy[1] + xy[2] + 1, units) } }
      starts  == { i \in 1..Len(s) : at(i) # {} }
  IN  IF starts = {} THEN NULL
      ELSE CHOOSE m \in at(CHOOSE x \in starts : \A y \in starts : x <= y) : TRUE

\* Math.round(Number(x) * 12)
roundTimes12(x) == (2 * 12 * toNumber(x.digits) + Pow10(x.scale)) \div (2 * Pow10(x.scale))

\* Object.keys(map).find((key) => normalized.includes(key)); 0 when none is
\* found
RECURSIVE findKey(_, _, _)
findKey(map, s, i) ==
  IF i > Len(map) THEN 0 ELSE IF includes(s, map[i][1]) THEN i ELSE findKey(map, s, i + 1)

workoutKeywordMap ==
  << <<"run", "Run">>, <<"jog", "Run">>, <<"walk", "Walk">>, <<"hike", "Hike">>,
     <<"yoga", "Yoga">>, <<"lift", "Strength">>, <<"weights", "Strength">>,
     <<"strength", "Strength">>, <<"pushup", "Strength">>, <<"push-ups", "Strength">>,
     <<"pushups", "Strength">>, <<"squat", "Strength">>, <<"squats", "Strength">>,
     <<"lunges", "Strength">>, <<"plank", "Core">>, <<"bike", "Ride">>, <<"ride", "Ride">>,
     <<"cycle", "Ride">>, <<"swim", "Swim">>, <<"row", "Row">>, <<"mobility", "Mobility">>,
     <<"pilates", "Pilates">>, <<"hiit", "HIIT">> >>

intensityMap ==
  << <<"easy", "easy">>, <<"light", "easy">>, <<"chill", "easy">>, <<"moderate", "moderate">>,
     <<"steady", "moderate">>, <<"normal", "moderate">>, <<"hard", "hard">>,
     <<"intense", "hard">>, <<"spicy", "hard">> >>

inferIntensity(type, minutes) ==
  IF type = "Yoga" \/ type = "Walk" \/ minutes <= 20 THEN "easy"
  ELSE IF minutes >= 50 THEN "hard"
  ELSE "moderate"

parseWorkoutFromText(text) ==
  LET normalized       == toLowerCase(text)
      minutesM         == minutesMatch(normalized)
      milesM           == milesMatch(normalized)
      keyword          == findKey(workoutKeywordMap, normalized, 1)
      intensityKeyword == findKey(intensityMap, normalized, 1)
      baseType         == IF keyword # 0 THEN workoutKeywordMap[keyword][2] ELSE "Activity"
      minutes          == IF minutesM # NULLS THEN toNumber(minutesM)
                          ELSE IF milesM # NULL THEN roundTimes12(milesM)
                          ELSE 20
  IN  [type |-> baseType,
       minutes |-> minutes,
       intensity |-> IF intensityKeyword # 0 THEN intensityMap[intensityKeyword][2]
                     ELSE inferIntensity(baseType, minutes),
       description |-> trim(text),
       status |-> "completed",
       distance |-> milesM]

Activities == {"", "Ran", "easy yoga", "walked the dog", "hard HIIT", "lifted weights", "rowing"}

Durations ==
  {"", " 30 min", " for 45minutes ", " 0 min", " 3 miles", " 2.5 km", " 0.01 miles",
   " 1234 mins", " 5 miles in 40 minutes", " 0.125 mile", " 90\tminutes", " 10 laps"}

WorkoutTexts == { a \o d : a \in Activities, d \in Durations } \ {""}

InitWorkout ==
  /\ pc = "text"
  /\ input \in WorkoutTexts
  /\ output = NULL /\ req = NULL
  /\ uuid = 0 /\ turn = 0 /\ NoStore

ParseWorkout ==
  /\ pc = "text"
  /\ output' = parseWorkoutFromText(input)
  /\ pc' = "workout"
  /\ UNCHANGED <<input, req, uuid, turn, storeVars>>

NextWorkout == ParseWorkout

SpecWorkout == InitWorkout /\ [][NextWorkout]_vars

\* the minutes the rule gives for each sample duration: the stated duration,
\* else round(distance * 12), else 20
RuleMinutes(d) ==
  CASE d = " 30 min" -> 30
    [] d = " for 45minutes " -> 45
    [] d = " 0 min" -> 0
    [] d = " 3 miles" -> 36
    [] d = " 2.5 km" -> 30
    [] d = " 0.01 miles" -> 0
    [] d = " 1234 mins" -> 234
    [] d = " 5 miles in 40 minutes" -> 40
    [] d = " 0.125 mile" -> 2
    [] d = " 90\tminutes" -> 90
    [] OTHER -> 20

FollowsRule ==
  \A a \in Activities, d \in Durations : input = a \o d => output.minutes = RuleMinutes(d)

\* C19: for every non-empty text the parsed workout has minutes > 0 and
\* status completed; minutes is the stated duration if there is one, else
\* round(distance * 12) if a distance is stated, else 20
C19_MinutesPositive ==
  pc = "workout" => output.minutes > 0 /\ output.status = "completed" /\ FollowsRule

(***************************************************************************)
(* Weekly workout statistics.  A date is a number of days counted from a   *)
(* Monday; a Number is an IEEE-754 double, kept as the bits of an integer  *)
(* (most significant first) and the count of those bits that lie after     *)
(* the binary point.                                                       *)
(***************************************************************************)
WEEK_LENGTH == 7
MantissaBits == 53

Float(bits, scale) == [bits |-> bits, scale |-> scale]

RECURSIVE stripZeros(_)
stripZeros(bits) == IF bits # <<>> /\ Head(bits) = 0 THEN stripZeros(Tail(bits)) ELSE bits

Front(bits) == SubSeq(bits, 1, Len(bits) - 1)

RECURSIVE addBits(_, _, _)
addBits(a, b, carry) ==
  IF a = <<>> /\ b = <<>> THEN (IF carry = 1 THEN <<1>> ELSE <<>>)
  ELSE LET sum == (IF a = <<>> THEN 0 ELSE a[Len(a)]) + (IF b = <<>> THEN 0 ELSE b[Len(b)]) + carry
           as  == IF a = <<>> THEN a ELSE Front(a)
           bs  == IF b = <<>> THEN b ELSE Front(b)
       IN  IF sum >= 2 THEN addBits(as, bs, 1) \o <<sum - 2>> ELSE addBits(as, bs, 0) \o <<sum>>

Zeros(k) == [i \in 1..k |-> 0]

\* round to nearest, ties to even, onto 53 significant bits; sticky tells
\* that the exact value lies above the bits given
roundToDouble(x, sticky) ==
  LET bits == stripZeros(x.bits)
      drop == Len(bits) - MantissaBits
  IN  IF drop <= 0 THEN Float(bits, x.scale)
      ELSE LET keep  == SubSeq(bits, 1, MantissaBits)
               guard == bits[MantissaBits + 1]
               below == sticky \/ \E i \in (MantissaBits + 2)..Len(bits) : bits[i] = 1
               up    == guard = 1 /\ (below \/ keep[MantissaBits] = 1)
           IN  Float((IF up THEN addBits(keep, <<1>>, 0) ELSE keep) \o Zeros(drop), x.scale)

\* binary digits of r / p after the point, for 0 <= r < p, up to the n-th
\* digit from the first 1 on, and the remainder left
RECURSIVE divideBits(_, _, _, _)
divideBits(r, p, n, bits) ==
  IF n = 0 \/ r = 0 THEN [bits |-> bits, rem |-> r]
  ELSE IF 2 * r >= p THEN divideBits(2 * r - p, p, n - 1, bits \o <<1>>)
  ELSE divideBits(2 * r, p, IF stripZeros(bits) = <<>> THEN n ELSE n - 1, bits \o <<0>>)

RECURSIVE toBits(_)
toBits(n) == IF n = 0 THEN <<>> ELSE toBits(n \div 2) \o <<n % 2>>

RECURSIVE fromBits(_)
fromBits(bits) == IF bits = <<>> THEN 0 ELSE 2 * fromBits(Front(bits)) + bits[Len(bits)]

\* a / b in double arithmetic, for integers 0 <= a and 0 < b
divide(a, b) ==
  LET q == divideBits(a % b, b, MantissaBits + 1, <<>>)
  IN  roundToDouble(Float(toBits(a \div b) \o q.bits, Len(q.bits)), q.rem # 0)

\* x * 100 in double arithmetic: 100 = 64 + 32 + 4
times100(x) ==
  roundToDouble(
    Float(addBits(addBits(x.bits \o Zeros(6), x.bits \o Zeros(5), 0), x.bits \o Zeros(2), 0),
          x.scale), FALSE)

\* Math.round of a double that is not negative: the nearest integer, a half
\* going up
MathRoundDouble(x) ==
  LET bits  == Zeros(x.scale + 1) \o x.bits
      whole == Len(bits) - x.scale
  IN  fromBits(SubSeq(bits, 1, whole)) + (IF x.scale > 0 THEN bits[whole + 1] ELSE 0)

MaxWorkouts == 3

\* Date.prototype.getDay: 0 is Sunday; day 0 is a Monday
getDay(date) == (date + 1) % WEEK_LENGTH

\* startOfWeek(date, { weekStartsOn: 1 })
startOfWeek(date) == date - ((getDay(date) + WEEK_LENGTH - 1) % WEEK_LENGTH)

differenceInCalendarDays(left, right) == left - right

WeekWorkout(date, minutes, status) == [date |-> date, minutes |-> minutes, status |-> status]

PlanEntry(weekday, minutesTarget) == [weekday |-> weekday, minutesTarget |-> minutesTarget]

RECURSIVE SumOf(_, _)
SumOf(seq, field) == IF seq = <<>> THEN 0 ELSE seq[1][field] + SumOf(Tail(seq), field)

\* planMinutes === 0 ? 0 : Math.min(100, Math.round((totalMinutes / planMinutes) * 100))
adherenceOf(totalMinutes, planMinutes) ==
  IF planMinutes = 0 THEN 0
  ELSE LET rounded == MathRoundDouble(times100(divide(totalMinutes, planMinutes)))
       IN  IF rounded > 100 THEN 100 ELSE rounded

getWeeklyWorkoutStats(state) ==
  LET weekStart        == startOfWeek(state.activeDate)
      workoutsThisWeek == SelectSeq(state.workouts, LAMBDA workout :
                            /\ differenceInCalendarDays(workout.date, weekStart) >= 0
                            /\ differenceInCalendarDays(workout.date, weekStart) < WEEK_LENGTH)
      completed        == SelectSeq(workoutsThisWeek, LAMBDA workout : workout.status = "completed")
      totalMinutes     == SumOf(completed, "minutes")
      planMinutes      == SumOf(state.weeklyPlan, "minutesTarget")
  IN  [workoutsCompleted |-> Len(completed), totalMinutes |-> totalMinutes,
       adherence |-> adherenceOf(totalMinutes, planMinutes)]

\* the plan of the default state, 240 minutes in all
defaultWeeklyPlan ==
  <<PlanEntry(1, 45), PlanEntry(2, 30), PlanEntry(3, 45), PlanEntry(4, 20), PlanEntry(5, 45),
    PlanEntry(6, 35), PlanEntry(0, 20)>>

WeeklyPlans == {<<>>, defaultWeeklyPlan, <<PlanEntry(1, 40)>>}

\* day 13 is the Sunday of the week that starts on day 7, day 14 the Monday
\* after it
ActiveDates == {13, 14}

WeekWorkouts ==
  { WeekWorkout(date, 30, "completed") : date \in {6, 7, 13, 14} }
    \cup { WeekWorkout(9, minutes, "completed") : minutes \in {48, 60} }
    \cup { WeekWorkout(10, 30, "skipped") }

WorkoutLists == UNION { [1..n -> WeekWorkouts] : n \in 0..MaxWorkouts }

InitWeekly ==
  /\ pc = "state"
  /\ input \in [activeDate : ActiveDates, workouts : WorkoutLists, weeklyPlan : WeeklyPlans]
  /\ output = NULL /\ req = NULL
  /\ uuid = 0 /\ turn = 0 /\ NoStore

WeeklyStats ==
  /\ pc = "state"
  /\ output' = getWeeklyWorkoutStats(input)
  /\ pc' = "stats"
  /\ UNCHANGED <<input, req, uuid, turn, storeVars>>

NextWeekly == WeeklyStats

SpecWeekly == InitWeekly /\ [][NextWeekly]_vars

\* the workouts that count: completed, and dated from the Monday on or
\* before activeDate up to the Sunday after it
Counted(state) ==
  { i \in 1..Len(state.workouts) :
      /\ state.workouts[i].status = "completed"
      /\ \E monday \in (state.activeDate - 6)..state.activeDate :
           /\ monday % WEEK_LENGTH = 0
           /\ state.workouts[i].date \in monday..(monday + 6) }

RECURSIVE MinutesOf(_, _)
MinutesOf(state, indices) ==
  IF indices = {} THEN 0
  ELSE LET i == CHOOSE x \in indices : TRUE
       IN  state.workouts[i].minutes + MinutesOf(state, indices \ {i})

\* C20: workoutsCompleted and totalMinutes count exactly the completed
\* workouts of the week that starts on the Monday on or before activeDate;
\* adherence is min(100, round(totalMinutes / planMinutes * 100)), 0 when
\* planMinutes is 0, an integer in 0..100; a 240-minute plan with 3 completed
\* workouts totalling 90 minutes gives {3, 90, 38}
C20_WeeklyStats ==
  pc = "stats" =>
    LET total == MinutesOf(input, Counted(input))
        plan  == SumOf(input.weeklyPlan, "minutesTarget")
        round == (2 * 100 * total + plan) \div (2 * plan)
    IN  /\ output.workoutsCompleted = Cardinality(Counted(input))
        /\ output.totalMinutes = total
        /\ output.adherence \in 0..100
        /\ plan = 0 => output.adherence = 0
        /\ plan # 0 => output.adherence = IF round > 100 THEN 100 ELSE round
        /\ (plan = 240 /\ Cardinality(Counted(input)) = 3 /\ total = 90) =>
             output = [workoutsCompleted |-> 3, totalMinutes |-> 90, adherence |-> 38]

(***************************************************************************)
(* The upcoming entry of the weekly plan.                                  *)
(***************************************************************************)
MaxPlanEntries == 3

\* Array.prototype.sort((a, b) => a.weekday - b.weekday): stable
RECURSIVE sortByWeekday(_)
sortByWeekday(seq) ==
  IF Len(seq) = 0 THEN seq
  ELSE LET x      == seq[Len(seq)]
           sorted == sortByWeekday(SubSeq(seq, 1, Len(seq) - 1))
       IN  SelectSeq(sorted, LAMBDA y : y.weekday <= x.weekday)
             \o <<x>> \o SelectSeq(sorted, LAMBDA y : y.weekday > x.weekday)

\* sortedPlan.find((entry) => entry.weekday >= todayWeekday), null when
\* nothing is found
find(sortedPlan, todayWeekday) ==
  LET matching == SelectSeq(sortedPlan, LAMBDA entry : entry.weekday >= todayWeekday)
  IN  IF matching = <<>> THEN NULL ELSE Head(matching)

getUpcomingPlan_sortsInPlace(state) ==
  LET todayWeekday == getDay(state.activeDate)
      sortedPlan   == sortByWeekday(state.weeklyPlan)
      found        == find(sortedPlan, todayWeekday)
  IN  [entry |-> IF found # NULL THEN found
                 ELSE IF sortedPlan # <<>> THEN sortedPlan[1] ELSE NULL,
       weeklyPlan |-> sortedPlan]

\* the entry returned, and state.weeklyPlan as the call leaves it: the sort
\* works on a copy
getUpcomingPlan(state) ==
  LET todayWeekday == getDay(state.activeDate)
      sortedPlan   == sortByWeekday(state.weeklyPlan)
      found        == find(sortedPlan, todayWeekday)
  IN  [entry |-> IF found # NULL THEN found
                 ELSE IF sortedPlan # <<>> THEN sortedPlan[1] ELSE NULL,
       weeklyPlan |-> state.weeklyPlan]

PlanEntries == { PlanEntry(weekday, 30) : weekday \in {0, 1, 3, 6} } \cup {PlanEntry(3, 45)}

PlanLists == UNION { [1..n -> PlanEntries] : n \in 0..MaxPlanEntries }

\* the seven days of one week, Monday to Sunday
PlanDates == 7..13

InitPlan ==
  /\ pc = "plan"
  /\ input \in [activeDate : PlanDates, weeklyPlan : PlanLists]
  /\ output = NULL /\ req = NULL
  /\ uuid = 0 /\ turn = 0 /\ NoStore

UpcomingPlan ==
  /\ pc = "plan"
  /\ output' = getUpcomingPlan(input).entry
  /\ req' = input
  /\ input' = [input EXCEPT !.weeklyPlan = getUpcomingPlan(input).weeklyPlan]
  /\ pc' = "upcoming"
  /\ UNCHANGED <<uuid, turn, storeVars>>

NextPlan == UpcomingPlan

SpecPlan == InitPlan /\ [][NextPlan]_vars

\* weekday of a date counted from a Monday, 0 for Sunday
WeekdayOf(date) == CHOOSE w \in 0..6 : (date - w) % 7 = 6

Weekdays(plan) == { plan[i].weekday : i \in 1..Len(plan) }

\* C21: for a non-empty weeklyPlan getUpcomingPlan returns the entry with the
\* smallest weekday >= the weekday of activeDate or, if there is none, the
\* entry with the smallest weekday; it returns null only when the plan is
\* empty, and state.weeklyPlan is left in its order
C21_CyclicLookup ==
  pc = "upcoming" =>
    LET today  == WeekdayOf(req.activeDate)
        days   == Weekdays(req.weeklyPlan)
        coming == { w \in days : w >= today }
    IN  /\ input = req
        /\ output = NULL <=> req.weeklyPlan = <<>>
        /\ output # NULL =>
             /\ \E i \in 1..Len(req.weeklyPlan) : req.weeklyPlan[i] = output
             /\ coming # {} => output.weekday \in coming /\ \A w \in coming : output.weekday <= w
             /\ coming = {} => \A w \in days : output.weekday <= w

\* on a Friday a plan listed Wednesday, Monday has nothing ahead: the lookup
\* wraps to Monday and the list keeps its order
C21_Witness ==
  /\ pc = "upcoming" /\ req.activeDate = 11
  /\ req.weeklyPlan = <<PlanEntry(3, 30), PlanEntry(1, 30)>>
  /\ output = PlanEntry(1, 30) /\ input.weeklyPlan = req.weeklyPlan

(***************************************************************************)
(* The heuristic macro estimate of one item.  Quantities and macros are    *)
(* counted in thousandths.                                                 *)
(***************************************************************************)
FoodNames == {"banana", "beer", "tofu"}

QuantityValues == {NULLN, 0, 1500, 3000, 6000, 9000}

QuantityUnits == MealQuantityUnit \cup {NULLS}

InitMacros ==
  /\ pc = "item"
  /\ input \in [part : FoodNames,
                quantity : { Quantity(value, unit) : value \in QuantityValues, unit \in QuantityUnits }]
  /\ output = NULL /\ req = NULL
  /\ uuid = 0 /\ turn = 0 /\ NoStore

\* estimateItemMacros(part, quantity), with the multiplier it computed
EstimateMacros ==
  /\ pc = "item"
  /\ output' = estimateItemMacros(input.part, input.quantity)
  /\ req' = computeMultiplier(input.quantity, FOOD_MACRO_DATABASE(input.part))
  /\ pc' = "macros"
  /\ UNCHANGED <<input, uuid, turn, storeVars>>

NextMacros == EstimateMacros

SpecMacros == InitMacros /\ [][NextMacros]_vars

Scaled(macros, multiplier) ==
  Macros(toFixed2((macros.calories * multiplier) \div 1000),
         toFixed2((macros.protein * multiplier) \div 1000),
         toFixed2((macros.carbs * multiplier) \div 1000),
         toFixed2((macros.fat * multiplier) \div 1000))

\* C22: with no matching table entry the default macros are scaled by
\* quantity.value, or by 1 if the value is unknown; with a matching entry the
\* multiplier is quantity.value / baseAmount when the unit is compatible with
\* the entry's base unit, and the raw quantity.value when the unit is
\* incompatible or absent
C22_MultiplierRule ==
  pc = "macros" =>
    LET entry == FOOD_MACRO_DATABASE(input.part)
        value == input.quantity.value
        unit  == input.quantity.unit
    IN  /\ entry = NULL =>
             /\ req = IF value = NULLN THEN 1000 ELSE value
             /\ output = Scaled(Macros(200000, 7000, 26000, 8000), req)
        /\ (entry # NULL /\ value # NULLN) =>
             /\ req = IF unit # NULLS /\ unitsMatch(unit, entry.unit)
                      THEN value \div entry.amount ELSE value
             /\ output = Scaled(entry.macros, req)

(***************************************************************************)
(* Flags of the heuristic meal-parse path.                                 *)
(***************************************************************************)
HeuristicParse == InOrch /\ req.parsed # NULL /\ req.parsed.audit.source = "heuristic"

\* C23: every item of the heuristic meal-parse path has flags.needsLookup =
\* true, with or without a heuristic nutrition estimate, and
\* flags.needsPortion = true exactly when quantity.value is null
C23_HeuristicFlags ==
  HeuristicParse =>
    \A i \in 1..Len(req.parsed.items) :
       /\ req.parsed.items[i].flags.needsLookup
       /\ req.parsed.items[i].flags.needsPortion <=> req.parsed.items[i].quantity.value = NULLN

(***************************************************************************)
(* One day re-sync on a state that holds records of two dates.             *)
(***************************************************************************)
\* the sub-sequences of a sequence
SubSeqsOf(seq) ==
  { SelectSeq([i \in 1..Len(seq) |-> <<i, seq[i]>>], LAMBDA p : p[1] \in keep) :
      keep \in SUBSET (1..Len(seq)) }

Seconds(pairs) == [i \in 1..Len(pairs) |-> pairs[i][2]]

\* lists the reducer keeps: ordered by createdAt
SyncMeals ==
  { Seconds(s) : s \in SubSeqsOf(<<MealLog(1, "u1", "d1", "api", 1), MealLog(2, "u1", "d2", "api", 2),
                                    MealLog(3, "u1", "d1", "manual", 4)>>) }

SyncWorkouts ==
  { Seconds(s) : s \in SubSeqsOf(<<WorkoutLog(1, "u1", "d1", 1), WorkoutLog(2, "u1", "d2", 3)>>) }

SyncStates ==
  { [defaultState EXCEPT !.userId = "u1", !.meals = meals, !.workouts = workouts,
                         !.mealDrafts = <<MealDraft(1, "llm")>>,
                         !.foodItemDrafts = <<FoodItemDraft(1, 1, "lunch", StoreItem, "llm", "high")>>] :
      meals \in SyncMeals, workouts \in SyncWorkouts }

\* what the server answers for one date, in the order it sends it
SnapshotMeals(date) ==
  { <<>>, <<MealLog(90, "u1", date, "api", 0)>>,
    <<MealLog(91, "u1", date, "api", 3), MealLog(90, "u1", date, "api", 0)>>,
    <<MealLog(3, "u1", date, "api", 4), MealLog(91, "u1", date, "api", 3)>> }

SnapshotWorkouts(date) == { <<>>, <<WorkoutLog(92, "u1", date, 2)>> }

SyncSnapshots ==
  UNION { { DaySnapshot(date, meals, workouts, targets) :
              meals \in SnapshotMeals(date), workouts \in SnapshotWorkouts(date),
              targets \in {NULLS, "custom"} } : date \in {"d1", "d2"} }

InitSync ==
  /\ pc = "sync"
  /\ coachState \in SyncStates
  /\ input = NULL /\ output = NULL /\ req = NULL
  /\ uuid = 0 /\ turn = 0
  /\ session = NULLS /\ refs = NULL /\ tasks = {} /\ last = NULL

\* dispatch({ type: 'syncDay', payload: snapshot })
SyncDay ==
  /\ pc = "sync"
  /\ \E snapshot \in SyncSnapshots :
       /\ last' = [type |-> "syncDay", payload |-> snapshot]
       /\ coachState' = coachReducer(coachState, [type |-> "syncDay", payload |-> snapshot])
  /\ req' = coachState
  /\ pc' = "synced"
  /\ UNCHANGED <<input, output, uuid, turn, session, refs, tasks>>

NextSync == SyncDay

SpecSync == InitSync /\ [][NextSync]_vars

\* the records of a list as a bag
BagOf(seq) == [x \in Range(seq) |-> Cardinality({ i \in 1..Len(seq) : seq[i] = x })]

OfDate(seq, date) == SelectSeq(seq, LAMBDA x : x.date = date)

NotOfDate(seq, date) == SelectSeq(seq, LAMBDA x : x.date # date)

Ascending(seq) == \A i \in 1..(Len(seq) - 1) : seq[i].createdAt <= seq[i + 1].createdAt

\* C24: syncDay(snapshot) replaces exactly the records of snapshot.date: the
\* meals and workouts of that date are afterwards those of the snapshot,
\* those of any other date are kept, both lists ascend by createdAt, targets
\* become snapshot.targets when present, and messages, drafts, profile,
\* userId, activeDate and weeklyPlan are unchanged
C24_SyncDayReplacesDate ==
  pc = "synced" =>
    LET snapshot == last.payload
    IN  /\ BagOf(OfDate(coachState.meals, snapshot.date)) = BagOf(snapshot.meals)
        /\ BagOf(OfDate(coachState.workouts, snapshot.date)) = BagOf(snapshot.workouts)
        /\ NotOfDate(coachState.meals, snapshot.date) = NotOfDate(req.meals, snapshot.date)
        /\ NotOfDate(coachState.workouts, snapshot.date) = NotOfDate(req.workouts, snapshot.date)
        /\ Ascending(coachState.meals) /\ Ascending(coachState.workouts)
        /\ coachState.targets = IF snapshot.targets # NULLS THEN snapshot.targets ELSE req.targets
        /\ \A field \in {"messages", "mealDrafts", "foodItemDrafts", "profile", "profileLoaded",
                         "userId", "activeDate", "weeklyPlan"} :
             coachState[field] = req[field]

\* a snapshot of d1 replaced two meals of d1, one of them by a newer copy,
\* while the meal and the workout of d2 stayed
C24_Witness ==
  /\ pc = "synced" /\ last.payload.date = "d1"
  /\ Len(OfDate(req.meals, "d1")) = 2 /\ Len(NotOfDate(req.meals, "d1")) = 1
  /\ req.workouts # <<>>
  /\ last.payload.meals = <<MealLog(3, "u1", "d1", "api", 4), MealLog(91, "u1", "d1", "api", 3)>>
  /\ coachState.meals = <<MealLog(2, "u1", "d2", "api", 2), MealLog(91, "u1", "d1", "api", 3),
                          MealLog(3, "u1", "d1", "api", 4)>>
  /\ last.payload.targets = "custom" /\ coachState.targets = "custom"

(***************************************************************************)
(* The onboarding questions, answered one after the other.                 *)
(***************************************************************************)
OnboardingAnswers ==
  {"Learn as we go", "LEARN", "i'd rather learn later", "Let's answer a few more now", "sure", ""}

OnboardingDepths == {NULLS, "learn", "more"}

\* normalized.includes('learn')
mentionsLearn(response) == includes(toLowerCase(response), "learn")

\* a profile in the middle of onboarding: its step and the data collected
InitOnboarding ==
  /\ pc = "ask"
  /\ input \in [step : 1..NumOnboardingSteps, onboardingDepth : OnboardingDepths]
  /\ output = NULL /\ req = NULL /\ last = NULL
  /\ uuid = 0 /\ turn = 0
  /\ NoStore

\* handleOnboardingFlow on the answer to the current step: parse it into the
\* data, then look for the next step with the data so updated
AnswerStep ==
  /\ pc = "ask"
  /\ \E response \in OnboardingAnswers :
       LET currentStep == input.step
           updatedDepth == IF currentStep > 1
                           THEN parseOnboardingResponse(currentStep, [learn |-> mentionsLearn(response)],
                                                        input.onboardingDepth)
                           ELSE input.onboardingDepth
           nextStep == getNextOnboardingStep(currentStep, updatedDepth)
       IN  /\ last' = response
           /\ req' = input
           /\ output' = nextStep
           /\ input' = [step |-> IF nextStep = NULLN THEN currentStep + 1 ELSE nextStep,
                        onboardingDepth |-> updatedDepth]
           /\ pc' = IF nextStep = NULLN THEN "complete" ELSE "ask"
  /\ UNCHANGED <<uuid, turn, coachState, session, refs, tasks>>

NextOnboarding == AnswerStep

SpecOnboarding == InitOnboarding /\ [][NextOnboarding]_vars

\* the steps after s that the data does not skip
OpenSteps(s, depth) ==
  { id \in (s + 1)..NumOnboardingSteps : ~(id \in {10, 11, 12, 13, 14} /\ depth = "learn") }

\* C25: the step that follows an answer is the step with the smallest id
\* above the current one whose skip condition is absent or false on the data
\* that includes this answer, or none; an answer containing "learn" at step 9
\* leads to the wrap-up step 15 and any other answer to step 10
C25_SkipOnCollectedData ==
  req # NULL =>
    /\ output = IF OpenSteps(req.step, input.onboardingDepth) = {} THEN NULLN
                ELSE CHOOSE id \in OpenSteps(req.step, input.onboardingDepth) :
                       \A other \in OpenSteps(req.step, input.onboardingDepth) : id <= other
    /\ req.step = 9 => output = IF mentionsLearn(last) THEN 15 ELSE 10

\* "Learn as we go" at step 9, with no depth collected before, went to step 15
C25_Witness ==
  /\ req # NULL /\ req.step = 9 /\ req.onboardingDepth = NULLS
  /\ last = "Learn as we go"
  /\ output = 15 /\ input.onboardingDepth = "learn"

(***************************************************************************)
(* What the enrichment leaves on the items it returns.                     *)
(***************************************************************************)
EnrichReturned == InOrch /\ req.enrichResult \notin {NULL, THROWN}

\* C26: after enrichNutrition / enrichNutritionEstimates has returned, on
\* any path (no key, all already enriched, remote success, remote failure),
\* every returned item has a non-null nutritionEstimate, the items whose
\* index the response omitted or put out of range included
C26_EnrichedNonNull ==
  EnrichReturned =>
    \A i \in 1..Len(req.enrichResult.enrichedItems) :
      req.enrichResult.enrichedItems[i].nutritionEstimate # NULL

(***************************************************************************)
(* The macros handleMealLogging reports for the meal it has just parsed.   *)
(***************************************************************************)
\* parsed.totals ?? computeTotalsFromItems(enrichedItems)
totalEstimate(parsed, enrichedItems) ==
  IF parsed.totals # NULL THEN parsed.totals ELSE computeTotalsFromItems(enrichedItems)

nutritionEstimateToMacroBreakdown(nutrition) ==
  IF nutrition = NULL THEN Macros(0, 0, 0, 0)
  ELSE Macros(CoalesceN(nutrition.caloriesKcal, 0), CoalesceN(nutrition.proteinG, 0),
              CoalesceN(nutrition.carbsG, 0), CoalesceN(nutrition.fatG, 0))

addMacros(base, delta) ==
  Macros(base.calories + delta.calories, base.protein + delta.protein,
         base.carbs + delta.carbs, base.fat + delta.fat)

\* the request states carry no logged meal, so today's totals are zero
todaysTotals == Macros(0, 0, 0, 0)

totalMacros == nutritionEstimateToMacroBreakdown(totalEstimate(req.parsed, req.enriched))

projectedTotals == addMacros(todaysTotals, totalMacros)

DraftItems == [i \in 1..Len(req.drafts) |-> req.drafts[i].payload.item]

DraftMacros ==
  Macros(SumField(DraftItems, "caloriesKcal"), SumField(DraftItems, "proteinG"),
         SumField(DraftItems, "carbsG"), SumField(DraftItems, "fatG"))

MealReported == InOrch /\ input.impl = "ai" /\ req.branch = "logMeal" /\ req.enrichResult # NULL

\* C27: for every logMeal message and every combination of remote outcomes,
\* the meal macros used for the reply and the projected daily totals are the
\* per-field sum of the nutrition estimates of the foodItemDrafts of the
\* same reply; an enrichment that changes an estimate never leaves them stale
C27_TotalsMatchDrafts ==
  MealReported =>
    /\ totalMacros = DraftMacros
    /\ projectedTotals = addMacros(todaysTotals, DraftMacros)

(***************************************************************************)
(* What one user's session may hold of another user's.                     *)
(***************************************************************************)
\* the continuations of sendMessage and of the confirms: they run after an
\* await, with the user their closure captured
Continuations == {"sendMessageDone", "confirmMealOnServerDone", "confirmSnapshotDone"}

\* dayId is buildDayId(userId, date)
OfUser(collection, userId) == \A i \in 1..Len(collection) : collection[i].dayId[1] = userId

\* C28: after setUser(u) with another user id, no later state holds a meal,
\* workout, draft or message produced for the previous user, whichever
\* sendMessage or confirm of the previous user was still awaiting a remote
\* call at the switch and dispatches afterwards
C28_SessionIsolation ==
  InStore =>
    /\ OfUser(coachState.meals, coachState.userId)
    /\ OfUser(coachState.workouts, coachState.userId)
    /\ last.handler \in Continuations /\ last.userId # coachState.userId => last.dispatched = <<>>

(***************************************************************************)
(* The conversation of one session.                                        *)
(***************************************************************************)
\* the messages that no addMessage put there: the greeting of defaultState
\* and what the profile fetch and the history fetch bring
LoadedMessages ==
  Range(defaultState.messages) \cup {CoachMessage("coach", "Welcome!"), CoachMessage("user", "earlier")}

RECURSIVE AddedMessages(_)
AddedMessages(messages) ==
  IF messages = <<>> THEN <<>>
  ELSE (IF Head(messages) \in LoadedMessages THEN <<>> ELSE <<Head(messages)>>)
         \o AddedMessages(Tail(messages))

\* C29: within one user session a message appended by addMessage stays in
\* state.messages, in its relative order, in every later state; the
\* completions of fetchChatHistory and fetchUserProfile never drop it
C29_MessagesKept ==
  [][InStore /\ coachState'.userId = coachState.userId =>
       IsPrefix(AddedMessages(coachState.messages), AddedMessages(coachState'.messages))]_vars

(***************************************************************************)
(* Day hydration: the provider with a changing session, its fetches        *)
(* answering.  A pending fetch is answered at some point (the promise of   *)
(* fetchDaySnapshot settles), which is the weak fairness of the delivery.  *)
(***************************************************************************)
\* the day fetch answered with a snapshot
DaySnapshotDelivered == DayFetchDone /\ last'.dispatched = <<"syncDay">>

NextHydration ==
  \/ SessionChange
  \/ DaySnapshotDelivered
  \/ ProfileFetchDone
  \/ HistoryFetchDone

\* what localStorage may hold at mount, a state saved on an earlier day included
HydrationStates ==
  PersistedStates
    \cup { [defaultState EXCEPT !.userId = "u1", !.activeDate = "d0",
                                !.profile = CompletedProfile("u1")] }

\* the mount of the provider, as in InitStore
InitHydration ==
  /\ pc = "store" /\ input = NULL /\ output = NULL /\ req = NULL /\ turn = 0
  /\ uuid = 3
  /\ session = NULLS
  /\ \E parsed \in HydrationStates :
       LET hydrated == IF parsed = NULL THEN defaultState
                       ELSE coachReducer(defaultState, [type |-> "hydrate", state |-> parsed])
           effects  == CoachProviderEffects(defaultState, hydrated, {}, EmptyRefs)
       IN  /\ coachState = hydrated
           /\ tasks = effects.tasks
           /\ refs = effects.refs
           /\ last = Step("mount", hydrated.userId, 0, TRUE, NULLS,
                          IF parsed = NULL THEN <<>> ELSE <<"hydrate">>)

SpecHydration == InitHydration /\ [][NextHydration]_vars /\ WF_vars(DaySnapshotDelivered)

\* the day of the signed-in user has been synchronised: the record the
\* server holds for it is among the meals
DayHydrated(u) ==
  \E i \in 1..Len(coachState.meals) :
    coachState.meals[i].id = 90 /\ coachState.meals[i].dayId = <<u, coachState.activeDate>>

====
